---------------------------- MODULE Spec2Model ----------------------------
(***************************************************************************)
(* Verification model of the cross-device sync engine                      *)
(* (mrwind-up-bird/ai-voiceagent).                                         *)
(*                                                                         *)
(* Several state machines share this module, each with its own             *)
(* specification:                                                          *)
(*   SpecRelay  the signaling relay      (signaling-server/src/main.rs)    *)
(*   SpecSignal two SignalingClients and their bridge tasks in front of    *)
(*              the relay                (sync/signaling.rs)               *)
(*   SpecDoc    two SyncDocument replicas exchanging full-state updates    *)
(*              in any order             (sync/document.rs)                *)
(*   SpecLink   creator and joiner over one LAN WebSocket: SPAKE2,         *)
(*              device-info exchange, initial snapshot and the sync loop   *)
(*              (sync/transport.rs, encryption.rs, pairing.rs,             *)
(*              document.rs)                                               *)
(*   SpecHostile the same link with a third party writing frames into it   *)
(*   SpecLeave  the same link with leave_session on either device;         *)
(*              FairLeave adds the scheduling of tasks and select branches *)
(*   SpecRotate the same link with the key-rotation timers of both         *)
(*              devices firing at any time                                 *)
(*   SpecTimer  one sync loop against the clock: heartbeat, peer timeout,  *)
(*              session limit, key rotation (sync/transport.rs)            *)
(*   SpecRtc    the creator's WebRTC negotiation over the relay: offer,    *)
(*              ICE candidates, ice_done, answer (sync/webrtc.rs)          *)
(*   SpecLocks  the SyncState and SyncDocument mutexes and the critical    *)
(*              sections of the tasks (sync/mod.rs, sync/transport.rs)     *)
(*   Spec       the session controller of one device with its background   *)
(*              transport tasks (sync/mod.rs, sync/transport.rs);          *)
(*              FairSpec adds the scheduling of its tasks                  *)
(*   SpecAgain  the controller with one more create_session than Spec      *)
(* The variables of the machines a specification does not run stay at      *)
(* their initial values.                                                   *)
(***************************************************************************)
EXTENDS Integers, Sequences, FiniteSets, TLC

None == "none"

(***************************************************************************)
(* State                                                                   *)
(***************************************************************************)

\* ---- signaling relay ----
VARIABLES
    rooms,        \* Rooms: room id -> (member id -> socket owning the outbox sender)
    sockOpen,     \* socket -> TRUE while its handle_socket loop runs
    client_room,  \* socket -> local client_room of handle_socket
    client_id,    \* socket -> local client_id of handle_socket
    outbox,       \* socket -> frames queued on its relay_tx/relay_rx channel
    received,     \* socket -> frames written to the client's WebSocket
    nEvents,      \* number of client frames and closes handled so far (bounded)
    relayLast     \* history: the kind of input handled last (and the join's room, id, verdict)

relayVars == <<rooms, sockOpen, client_room, client_id, outbox, received,
               nEvents, relayLast>>

\* ---- the SignalingClient of each device, in front of the relay ----
VARIABLES
    conn,      \* client -> [st, room]: "idle", "open" once connect() returned, "closed"
    sendq,     \* client -> payloads queued on outbound_tx / outbound_rx
    wsUp,      \* client -> frames written to the WebSocket, not yet read by the relay
    taken,     \* client -> number of frames of `received` its bridge task has read
    inbound,   \* client -> events queued on inbound_tx / inbound_rx
    got,       \* history: client -> events recv() returned, in order
    sentLog,   \* history: client -> payloads passed to send(), in order
    joinSeq    \* history: clients in the order the relay registered their joins

sigVars == <<conn, sendq, wsUp, taken, inbound, got, sentLog, joinSeq>>

\* ---- two devices over one link ----
VARIABLES
    lcode,      \* device -> the pairing code its user holds
    clientNum,  \* device -> the yrs client id its Doc drew
    hs,         \* device -> position in the handshake / sync loop task
    wire,       \* device -> frames in flight towards it (reliable, FIFO)
    cipher,     \* device -> SessionEncryption (NoCipher before the SPAKE2 finish)
    lstatus,    \* device -> SyncState.status
    lpeer,      \* device -> SyncState.peer
    lhandle,    \* device -> "stored" when SyncState.transport holds the handle,
                \* "pending" when the joiner's task holds it, else "none"
    ldoc,       \* device -> SyncDocument (set of CRDT items)
    outq,       \* device -> plaintext updates queued on the handle's mpsc channel
    key_rotation_epoch,  \* device -> local of run_sync_loop
    sealed,     \* history: every AEAD seal made, [key, counter, pt]
    undecryptable, \* history: device -> Updates its loop dropped on a decrypt failure
    opened,     \* history: device -> TRUE once it took in an envelope that was
                \* sealed under the very key it holds
    emitted,    \* history: device -> sync-state-updated events its loop emitted
    swallowed,  \* history: device -> the kinds of per-frame errors its loop has
                \* logged: "parse", "decrypt", "apply"
    nWrites,    \* update commands issued so far
    nTicks,     \* heartbeat-timer ticks so far
    nInjected,  \* frames put on the link by someone other than the two devices
    hasLeft,    \* history: device -> leave_sync_session has reset its Connected session
    saidGoodbye, \* history: device -> its loop has handed a Goodbye to send_msg
    snapshotSent \* history: the envelope of "Send initial state to joiner", once sent
                \* (a set of at most one)

linkVars == <<lcode, clientNum, hs, wire, cipher, lstatus, lpeer, lhandle, ldoc, outq,
              key_rotation_epoch, sealed, undecryptable, opened, emitted, swallowed,
              nWrites, nTicks, nInjected, hasLeft, saidGoodbye, snapshotSent>>

\* ---- two document replicas and the update encodings made of them ----
VARIABLES
    updates,    \* every encode_state_as_update result produced so far; each can be
                \* delivered to either replica any number of times, in any order
    applied     \* history: replica -> the items of the update encodings it has applied

docVars == <<updates, applied>>

\* ---- one sync loop against the clock ----
VARIABLES
    loop,       \* run_sync_loop's timers and locals: now, next_tick (the heartbeat
                \* timer's deadline), last_peer_activity, last_key_rotation (all in
                \* seconds since session_start), session_warning_sent,
                \* key_rotation_epoch, encryption, running, and the history
                \* counter warnings (sync-session-warning events emitted so far)
    loopLast    \* history: the step taken last, the frames it handed to send_msg
                \* and the events it emitted

timerVars == <<loop, loopLast>>

\* ---- the creator's WebRTC negotiation through the signaling relay ----
VARIABLES
    nego,        \* position of establish_webrtc_transport (is_creator) after SPAKE2
    inbox,       \* payloads the relay has for the creator, in arrival order
    outlog,      \* history: the envelopes the creator handed to signaling.send, in order
    ice_rx,      \* the mpsc channel on_candidate feeds: candidates not yet read
    gathering,   \* the peer connection's GatheringState: "new", "in_progress", "complete"
    gatheredIce, \* history: every candidate on_candidate has delivered
    remoteDesc,  \* set_remote_description has been called with the peer's answer
    remoteIce,   \* candidates passed to add_remote_candidate
    rtcCipher,   \* the SessionEncryption of the negotiation
    peerSent     \* the peer: what it has sent of its answer, candidates and ice_done

rtcVars == <<nego, inbox, outlog, ice_rx, gathering, gatheredIce, remoteDesc, remoteIce,
             rtcCipher, peerSent>>

\* ---- the two mutexes of one device and the tasks that take them ----
VARIABLES
    tpc,         \* task -> index of the instruction it is at (suspended on, if that
                 \* instruction is a transport send or receive)
    holder       \* mutex -> the task that holds its guard, or None

lockVars == <<tpc, holder>>

\* ---- session controller of one device ----
VARIABLES
    status,        \* SyncState.status
    session_id,    \* SyncState.session_id: 0 for None, else the number of the session
    pairing_code,  \* SyncState.pairing_code
    peer,          \* SyncState.peer
    transport,     \* SyncState.transport
    discovery,     \* SyncState.discovery is Some
    doc,           \* SyncState.doc: the session it was made for, and whether it was written
    sessions,      \* create_session / join_session calls that passed the precondition
    cmd,           \* session -> position of the create_sync_session call
    lan,           \* session -> position of the task spawned by start_creator_transport
    rtc,           \* session -> position of the WebRTC fallback task of create_sync_session
    jn,            \* session -> position of the task spawned by join_sync_session
    jloop,         \* session -> position of the joiner's sync loop task
    won,           \* history: session -> the path that first made the state Connected
    last           \* history: the step taken last

ctlVars == <<status, session_id, pairing_code, peer, transport, discovery, doc, sessions,
             cmd, lan, rtc, jn, jloop, won, last>>

vars == <<relayVars, sigVars, linkVars, docVars, timerVars, rtcVars, lockVars, ctlVars>>
notRelay == <<sigVars, linkVars, docVars, timerVars, rtcVars, lockVars, ctlVars>>
notSig == <<linkVars, docVars, timerVars, rtcVars, lockVars, ctlVars>>
notLink == <<relayVars, sigVars, docVars, timerVars, rtcVars, lockVars, ctlVars>>
notDoc == <<relayVars, sigVars, timerVars, rtcVars, lockVars, ctlVars>>
notTimer == <<relayVars, sigVars, linkVars, docVars, rtcVars, lockVars, ctlVars>>
notRtc == <<relayVars, sigVars, linkVars, docVars, timerVars, lockVars, ctlVars>>
notLock == <<relayVars, sigVars, linkVars, docVars, timerVars, rtcVars, ctlVars>>
notCtl == <<relayVars, sigVars, linkVars, docVars, timerVars, rtcVars, lockVars>>

(***************************************************************************)
(* Part I -- the signaling relay (signaling-server/src/main.rs)            *)
(***************************************************************************)

\* Bounds of the relay model.
MaxEvents == 3

\* const MAX_CLIENTS_PER_ROOM
MAX_CLIENTS_PER_ROOM == 2

Sockets == {"s1", "s2", "s3"}
RoomIds == {"X", "Y"}
ClientIds == {"a", "b", "c"}
Payloads == {"p1", "p2"}

\* ServerMessage
PeerJoined(room, from) == [type |-> "peer_joined", room |-> room, from |-> from, payload |-> None]
PeerLeft(room, from) == [type |-> "peer_left", room |-> room, from |-> from, payload |-> None]
RelayMsg(room, from, payload) == [type |-> "relay", room |-> room, from |-> from, payload |-> payload]

\* r.clients of a room (empty when the room is not in the map)
Members(rs, room) == IF room \in DOMAIN rs THEN DOMAIN rs[room] ELSE {}

\* a seeded fault: the capacity test off by one
RoomFullOffByOne(rs, room) == Cardinality(Members(rs, room)) > MAX_CLIENTS_PER_ROOM

\* r.clients.len() >= MAX_CLIENTS_PER_ROOM
RoomFull(rs, room) == Cardinality(Members(rs, room)) >= MAX_CLIENTS_PER_ROOM

\* a seeded fault: the sender is not left out
OthersAndSender(clients, from) == clients

\* r.clients.iter() filtered by `id != &from`
Others(clients, from) == [m \in DOMAIN clients \ {from} |-> clients[m]]

\* a seeded fault: the frame goes to every connected client
SendAllBroadcast(ob, clients, msg) ==
    [s \in Sockets |-> IF sockOpen[s] THEN Append(ob[s], msg) ELSE ob[s]]

\* for (_, tx) in clients { let _ = tx.send(json) }: one copy for every entry
\* of `clients` (member id -> socket); a send to a channel whose receiver was
\* dropped (handler exited) fails and is ignored.
SendAll(ob, clients, msg) ==
    [s \in Sockets |->
        IF sockOpen[s]
        THEN ob[s] \o [i \in 1 .. Cardinality({m \in DOMAIN clients : clients[m] = s}) |-> msg]
        ELSE ob[s]]

RelayInit ==
    /\ rooms = <<>>
    /\ sockOpen = [s \in Sockets |-> TRUE]
    /\ client_room = [s \in Sockets |-> None]
    /\ client_id = [s \in Sockets |-> None]
    /\ outbox = [s \in Sockets |-> <<>>]
    /\ received = [s \in Sockets |-> <<>>]
    /\ nEvents = 0
    /\ relayLast = [op |-> "init", room |-> None, from |-> None, full |-> FALSE]

\* a seeded fault: the newcomer is inserted before the members are notified
HandleJoinInsertFirst(s, room, from) ==
    /\ sockOpen[s]
    /\ IF RoomFull(rooms, room)
       THEN /\ relayLast' = [op |-> "join", room |-> room, from |-> from, full |-> TRUE]
            /\ UNCHANGED <<rooms, sockOpen, client_room, client_id, outbox, received>>
       ELSE /\ outbox' = SendAll(outbox,
                                 [m \in Members(rooms, room) \cup {from} |->
                                    IF m = from THEN s ELSE rooms[room][m]],
                                 PeerJoined(room, from))
            /\ rooms' = [r \in DOMAIN rooms \cup {room} |->
                           IF r = room
                           THEN [m \in Members(rooms, room) \cup {from} |->
                                    IF m = from THEN s ELSE rooms[room][m]]
                           ELSE rooms[r]]
            /\ client_room' = [client_room EXCEPT ![s] = room]
            /\ client_id' = [client_id EXCEPT ![s] = from]
            /\ relayLast' = [op |-> "join", room |-> room, from |-> from, full |-> FALSE]
            /\ UNCHANGED <<sockOpen, received>>

\* handle_socket, ClientMessage::Join { room, from } read from socket s
HandleJoin(s, room, from) ==
    /\ sockOpen[s]
    /\ IF RoomFull(rooms, room)
       THEN \* "Room is full, rejecting": continue
            /\ relayLast' = [op |-> "join", room |-> room, from |-> from, full |-> TRUE]
            /\ UNCHANGED <<rooms, sockOpen, client_room, client_id, outbox, received>>
       ELSE /\ outbox' = SendAll(outbox,
                                 [m \in Members(rooms, room) |-> rooms[room][m]],
                                 PeerJoined(room, from))
            /\ rooms' = [r \in DOMAIN rooms \cup {room} |->
                           IF r = room
                           THEN [m \in Members(rooms, room) \cup {from} |->
                                    IF m = from THEN s ELSE rooms[room][m]]
                           ELSE rooms[r]]
            /\ client_room' = [client_room EXCEPT ![s] = room]
            /\ client_id' = [client_id EXCEPT ![s] = from]
            /\ relayLast' = [op |-> "join", room |-> room, from |-> from, full |-> FALSE]
            /\ UNCHANGED <<sockOpen, received>>

\* handle_socket, ClientMessage::Relay { room, from, payload } read from socket s
HandleRelay(s, room, from, payload) ==
    /\ sockOpen[s]
    /\ outbox' = IF room \in DOMAIN rooms
                 THEN SendAll(outbox, Others(rooms[room], from),
                              RelayMsg(room, from, payload))
                 ELSE outbox
    /\ relayLast' = [op |-> "relay", room |-> None, from |-> None, full |-> FALSE]
    /\ UNCHANGED <<rooms, sockOpen, client_room, client_id, received>>

\* a seeded fault: the newest queued frame is written first
HandleOutboundNewestFirst(s) ==
    /\ sockOpen[s]
    /\ outbox[s] # <<>>
    /\ received' = [received EXCEPT ![s] = Append(@, outbox[s][Len(outbox[s])])]
    /\ outbox' = [outbox EXCEPT ![s] = SubSeq(@, 1, Len(@) - 1)]
    /\ relayLast' = [op |-> "deliver", room |-> None, from |-> None, full |-> FALSE]
    /\ UNCHANGED <<rooms, sockOpen, client_room, client_id>>

\* handle_socket: Some(msg) = relay_rx.recv() => socket.send(msg)
HandleOutbound(s) ==
    /\ sockOpen[s]
    /\ outbox[s] # <<>>
    /\ received' = [received EXCEPT ![s] = Append(@, Head(outbox[s]))]
    /\ outbox' = [outbox EXCEPT ![s] = Tail(@)]
    /\ relayLast' = [op |-> "deliver", room |-> None, from |-> None, full |-> FALSE]
    /\ UNCHANGED <<rooms, sockOpen, client_room, client_id>>

\* handle_socket: the loop breaks (Close frame, end of stream or a failed
\* send) and the "Cleanup on disconnect" block runs; relay_rx is dropped with
\* whatever is still queued on it
HandleClose(s) ==
    /\ sockOpen[s]
    /\ sockOpen' = [sockOpen EXCEPT ![s] = FALSE]
    /\ LET room == client_room[s]
           id == client_id[s]
       IN IF room # None /\ id # None /\ room \in DOMAIN rooms
          THEN LET left == Members(rooms, room) \ {id}
               IN /\ outbox' = [SendAll(outbox, [m \in left |-> rooms[room][m]],
                                        PeerLeft(room, id))
                                   EXCEPT ![s] = <<>>]
                  /\ rooms' = IF left = {}
                              THEN [r \in DOMAIN rooms \ {room} |-> rooms[r]]
                              ELSE [r \in DOMAIN rooms |->
                                      IF r = room THEN [m \in left |-> rooms[room][m]]
                                      ELSE rooms[r]]
          ELSE /\ outbox' = [outbox EXCEPT ![s] = <<>>]
               /\ rooms' = rooms
    /\ relayLast' = [op |-> "close", room |-> None, from |-> None, full |-> FALSE]
    /\ UNCHANGED <<client_room, client_id, received>>

\* ---- the relay fed with arbitrary client frames ----
RelayJoin(s, room, from) ==
    /\ nEvents < MaxEvents
    /\ nEvents' = nEvents + 1
    /\ HandleJoin(s, room, from)
    /\ UNCHANGED notRelay

RelayRelay(s, room, from, payload) ==
    /\ nEvents < MaxEvents
    /\ nEvents' = nEvents + 1
    /\ HandleRelay(s, room, from, payload)
    /\ UNCHANGED notRelay

RelayDeliver(s) ==
    /\ HandleOutbound(s)
    /\ UNCHANGED nEvents
    /\ UNCHANGED notRelay

RelayClose(s) ==
    /\ nEvents < MaxEvents
    /\ nEvents' = nEvents + 1
    /\ HandleClose(s)
    /\ UNCHANGED notRelay

(***************************************************************************)
(* Part I-b -- two SignalingClients in front of the relay                  *)
(* (sync/signaling.rs, signaling-server/src/main.rs)                       *)
(***************************************************************************)

\* Bounds of the signaling model.
MaxSends == 2       \* SignalingClient::send calls, both clients together

\* the clients' WebSockets at the relay
Clients == {"s1", "s2"}
DeviceId(c) == IF c = "s1" THEN "a" ELSE "b"

\* room_id_from_pairing_code: hex SHA-256 of the code (collision free here)
room_id_from_pairing_code(code) == IF code = "7-violet-castle" THEN "X" ELSE "Y"

\* BASE64.encode / BASE64.decode of the payload bytes
B64Encode(bytes) == IF bytes = "p1" THEN "cDE=" ELSE IF bytes = "p2" THEN "cDI=" ELSE "!"
B64Decode(text) == IF text = "cDE=" THEN "p1" ELSE IF text = "cDI=" THEN "p2" ELSE None

\* ClientMessage (signaling.rs), and the end of the WebSocket stream
JoinMsg(room, from) == [type |-> "join", room |-> room, from |-> from, payload |-> None]
ClientRelay(room, from, payload) ==
    [type |-> "relay", room |-> room, from |-> from, payload |-> payload]
StreamEnd == [type |-> "close", room |-> None, from |-> None, payload |-> None]

\* SignalingEvent made of a ServerMessage by the bridge task
EventOf(f) ==
    IF f.type = "relay" THEN [kind |-> "payload", val |-> B64Decode(f.payload)]
    ELSE [kind |-> f.type, val |-> f.from]

SigInit ==
    /\ conn = [c \in Clients |-> [st |-> "idle", room |-> None]]
    /\ sendq = [c \in Clients |-> <<>>]
    /\ wsUp = [c \in Clients |-> <<>>]
    /\ taken = [c \in Clients |-> 0]
    /\ inbound = [c \in Clients |-> <<>>]
    /\ got = [c \in Clients |-> <<>>]
    /\ sentLog = [c \in Clients |-> <<>>]
    /\ joinSeq = <<>>

\* SignalingClient::connect: the join frame is written before the bridge
\* task is spawned
Connect(c, code) ==
    /\ conn[c].st = "idle"
    /\ conn' = [conn EXCEPT ![c] = [st |-> "open", room |-> room_id_from_pairing_code(code)]]
    /\ wsUp' = [wsUp EXCEPT ![c] =
                   Append(@, JoinMsg(room_id_from_pairing_code(code), DeviceId(c)))]
    /\ UNCHANGED <<sendq, taken, inbound, got, sentLog, joinSeq>>
    /\ UNCHANGED <<relayVars, notSig>>

\* SignalingClient::send
Send(c, payload) ==
    /\ conn[c].st = "open"
    /\ Len(sentLog["s1"]) + Len(sentLog["s2"]) < MaxSends
    /\ \A i \in 1 .. Len(sentLog[c]) : sentLog[c][i] # payload
    /\ sendq' = [sendq EXCEPT ![c] = Append(@, payload)]
    /\ sentLog' = [sentLog EXCEPT ![c] = Append(@, payload)]
    /\ UNCHANGED <<conn, wsUp, taken, inbound, got, joinSeq>>
    /\ UNCHANGED <<relayVars, notSig>>

\* the bridge task breaks: both halves of the WebSocket are dropped
BridgeBreak(c) ==
    /\ conn' = [conn EXCEPT ![c].st = "closed"]
    /\ wsUp' = [wsUp EXCEPT ![c] = Append(@, StreamEnd)]
    /\ sendq' = [sendq EXCEPT ![c] = <<>>]
    /\ inbound' = [inbound EXCEPT ![c] = <<>>]

\* bridge task, outbound branch: outbound_rx.recv()
BridgeOut(c) ==
    /\ conn[c].st \in {"open", "dropped"}
    /\ IF sendq[c] # <<>>
       THEN /\ wsUp' = [wsUp EXCEPT ![c] =
                          Append(@, ClientRelay(conn[c].room, DeviceId(c),
                                                B64Encode(Head(sendq[c]))))]
            /\ sendq' = [sendq EXCEPT ![c] = Tail(@)]
            /\ UNCHANGED <<conn, inbound>>
       ELSE \* None: the channel is closed and drained
            /\ conn[c].st = "dropped"
            /\ BridgeBreak(c)
    /\ UNCHANGED <<taken, got, sentLog, joinSeq>>
    /\ UNCHANGED <<relayVars, notSig>>

\* bridge task, inbound branch: ws_read.next()
BridgeIn(c) ==
    /\ conn[c].st \in {"open", "dropped"}
    /\ taken[c] < Len(received[c])
    /\ taken' = [taken EXCEPT ![c] = @ + 1]
    /\ LET ev == EventOf(received[c][taken[c] + 1])
       IN IF ev.val = None
          THEN \* the payload does not decode: the frame is skipped
               UNCHANGED <<conn, sendq, wsUp, inbound>>
          ELSE IF conn[c].st = "dropped"
          THEN \* inbound_tx.send fails, the receiver is gone
               BridgeBreak(c)
          ELSE /\ inbound' = [inbound EXCEPT ![c] = Append(@, ev)]
               /\ UNCHANGED <<conn, sendq, wsUp>>
    /\ UNCHANGED <<got, sentLog, joinSeq>>
    /\ UNCHANGED <<relayVars, notSig>>

\* SignalingClient::recv
Recv(c) ==
    /\ conn[c].st = "open"
    /\ inbound[c] # <<>>
    /\ got' = [got EXCEPT ![c] = Append(@, Head(inbound[c]))]
    /\ inbound' = [inbound EXCEPT ![c] = Tail(@)]
    /\ UNCHANGED <<conn, sendq, wsUp, taken, sentLog, joinSeq>>
    /\ UNCHANGED <<relayVars, notSig>>

\* SignalingClient::wait_for_peer has returned: recv() gave a PeerJoined
Released(c) == \E i \in 1 .. Len(got[c]) : got[c][i].kind = "peer_joined"

\* SignalingClient::close: the client is dropped, the bridge task lives on
\* until its channel is drained
Close(c) ==
    /\ conn[c].st = "open"
    /\ conn' = [conn EXCEPT ![c].st = "dropped"]
    /\ inbound' = [inbound EXCEPT ![c] = <<>>]
    /\ UNCHANGED <<sendq, wsUp, taken, got, sentLog, joinSeq>>
    /\ UNCHANGED <<relayVars, notSig>>

\* handle_socket of the client's connection: socket.recv()
ServerRecv(c) ==
    /\ wsUp[c] # <<>>
    /\ wsUp' = [wsUp EXCEPT ![c] = Tail(@)]
    /\ LET f == Head(wsUp[c])
       IN CASE f.type = "join" ->
                 /\ HandleJoin(c, f.room, f.from)
                 /\ joinSeq' = IF RoomFull(rooms, f.room) THEN joinSeq ELSE Append(joinSeq, c)
            [] f.type = "relay" ->
                 /\ HandleRelay(c, f.room, f.from, f.payload)
                 /\ UNCHANGED joinSeq
            [] f.type = "close" ->
                 /\ HandleClose(c)
                 /\ UNCHANGED joinSeq
    /\ UNCHANGED <<nEvents, conn, sendq, taken, inbound, got, sentLog>>
    /\ UNCHANGED notSig

\* handle_socket of the client's connection: relay_rx.recv()
ServerSend(c) ==
    /\ HandleOutbound(c)
    /\ UNCHANGED <<nEvents, sigVars>>
    /\ UNCHANGED notSig

(***************************************************************************)
(* Part II -- creator and joiner over one LAN WebSocket                    *)
(* (sync/transport.rs, sync/encryption.rs, sync/pairing.rs,                *)
(*  sync/document.rs)                                                      *)
(***************************************************************************)

\* Bounds of the link model.
MaxWrites == 1      \* update_transcript / update_agent_result calls, both devices together
MaxTicks == 1       \* heartbeat-timer ticks, both devices together
MaxRotations == 2   \* an epoch from which the rotation timer of a device no longer fires

Peers == {"creator", "joiner"}
Other(p) == IF p = "creator" THEN "joiner" ELSE "creator"
Codes == {"7-violet-castle", "3-amber-forge"}
Keys == {"transcript", "dev_log"}
Vals == {"v1", "v2"}

\* ---- pairing.rs: SPAKE2 ----
\* PairingCreator::start / PairingJoiner::start: the outbound message blinds
\* the sender's ephemeral share with its password.
PairingStart(side, code) == [side |-> side, pw |-> code]

\* a seeded fault: the secret does not depend on the passwords
PairingFinishAnyPassword(side, code, peerMsg) == [base |-> "xyG", residue |-> <<>>]

\* Spake2::finish: unblinding with the own password gives the common group
\* element exactly when both passwords agree; otherwise each side is left
\* with its own residue.
PairingFinish(side, code, peerMsg) ==
    [base |-> "xyG",
     residue |-> IF peerMsg.pw = code THEN <<>> ELSE <<side, code, peerMsg.pw>>]

\* ---- encryption.rs: SessionEncryption ----
\* the task's cipher before the SPAKE2 finish: there is none yet
NoCipher == [secret |-> [base |-> "none", residue |-> <<>>], gen |-> 0, seal_counter |-> 0]

\* from_shared_secret: HKDF of the secret, seal_counter 0
from_shared_secret(secret) == [secret |-> secret, gen |-> 0, seal_counter |-> 0]

\* key_material: the secret's HKDF output ratcheted gen times
KeyOf(c) == [secret |-> c.secret, gen |-> c.gen]

\* encrypt: the envelope and the cipher after fetch_add
Envelope(c, pt) == [counter |-> c.seal_counter, key |-> KeyOf(c), pt |-> pt]
AfterEncrypt(c) == [c EXCEPT !.seal_counter = @ + 1]

\* a seeded fault: decrypt accepts any envelope
DecryptAny(c, env) == TRUE

\* a seeded fault: decrypt accepts the envelopes of every epoch of its secret
DecryptAnyEpoch(c, env) == env.key.secret = c.secret

\* decrypt: the AEAD tag verifies only under the key that sealed
DecryptOk(c, env) == env.key = KeyOf(c)

\* a seeded fault: the ratchet step leaves the counter where it was
rotate_key_keeps_counter(c) == [c EXCEPT !.gen = @ + 1]

\* rotate_key: next key of the ratchet, counter reset
rotate_key(c) == [c EXCEPT !.gen = @ + 1, !.seal_counter = 0]

\* ---- document.rs: SyncDocument over a yrs Doc ----
\* An item is one map.insert: [id, key, origin, val]; origin is the id of the
\* entry that was current for the key when it was written.
ItemIds(d) == {i.id : i \in d}

\* the origin of an entry written to a key that had none
NoItem == <<0, 0>>

\* yrs integration order for one key: siblings of one origin in ascending
\* client id, each followed by its own subtree; the entry of the key is the
\* rightmost item.
RECURSIVE Rightmost(_, _, _)
Rightmost(d, key, node) ==
    LET kids == {i \in d : i.key = key /\ i.origin = node}
    IN IF kids = {} THEN node
       ELSE LET top == CHOOSE i \in kids : \A j \in kids : j.id[1] <= i.id[1]
            IN Rightmost(d, key, top.id)

\* map.get(key)
MapGet(d, key) ==
    LET w == Rightmost(d, key, NoItem)
    IN IF w = NoItem THEN None ELSE (CHOOSE i \in d : i.id = w).val

\* map.insert(key, val) by client c
NextClock(d, c) == Cardinality({i \in d : i.id[1] = c})
MapInsert(d, c, key, val) ==
    d \cup {[id |-> <<c, NextClock(d, c)>>, key |-> key,
               origin |-> Rightmost(d, key, NoItem), val |-> val]}

\* encode_state_as_update: everything the document holds
encode_state_as_update(d) == d

\* txn.state_vector(): for every client the number of its entries held
state_vector(d) == [c \in {1, 2} |-> NextClock(d, c)]

\* a seeded fault: an entry the document already holds is integrated once
\* more, as a further entry of its client
apply_update_reintegrates(d, update) ==
    d \cup update \cup
        {[i EXCEPT !.id = <<i.id[1], i.id[2] + NextClock(d, i.id[1])>>, !.origin = i.id] :
            i \in update \cap d}

\* a seeded fault: an entry for a key the document already holds is ignored
apply_update_new_keys_only(d, update) ==
    d \cup {i \in update : \A j \in d : j.key # i.key}

\* apply_update: merge the update's items
apply_update(d, update) == d \cup update

\* snapshot(): transcript defaults to "", an agent slot to None
snapshot(d) ==
    [transcript |-> IF MapGet(d, "transcript") = None THEN "" ELSE MapGet(d, "transcript"),
     dev_log |-> MapGet(d, "dev_log")]

\* ---- transport.rs: SyncMessage ----
Spake2Msg(payload) == [type |-> "spake2", payload |-> payload]
UpdateMsg(env) == [type |-> "update", envelope |-> env]
\* the two plaintexts that are sealed: a serialized DeviceInfo and the bytes
\* of a yrs update
DeviceInfo(p) == [type |-> "device_info", device_id |-> p, items |-> {}]
DocUpdate(u) == [type |-> "yrs_update", device_id |-> None, items |-> u]
HeartbeatMsg == [type |-> "heartbeat"]
KeyRotateMsg(e) == [type |-> "key_rotate", epoch |-> e]
GoodbyeMsg == [type |-> "goodbye"]

LinkInit ==
    /\ lcode \in {f \in [Peers -> Codes] : f["creator"] = "7-violet-castle"}
    /\ clientNum \in {f \in [Peers -> {1, 2}] : f["creator"] # f["joiner"]}
    /\ hs = [p \in Peers |-> IF p = "creator" THEN "send_spake" ELSE "recv_spake"]
    /\ wire = [p \in Peers |-> <<>>]
    /\ cipher = [p \in Peers |-> NoCipher]
    /\ lstatus = [p \in Peers |-> IF p = "creator" THEN "WaitingForPeer" ELSE "Connecting"]
    /\ lpeer = [p \in Peers |-> None]
    /\ lhandle = [p \in Peers |-> IF p = "creator" THEN "stored" ELSE "none"]
    /\ ldoc = [p \in Peers |-> {}]
    /\ outq = [p \in Peers |-> <<>>]
    /\ key_rotation_epoch = [p \in Peers |-> 0]
    /\ sealed = {}
    /\ undecryptable = [p \in Peers |-> 0]
    /\ opened = [p \in Peers |-> FALSE]
    /\ emitted = [p \in Peers |-> 0]
    /\ swallowed = [p \in Peers |-> {}]
    /\ nWrites = 0
    /\ nTicks = 0
    /\ nInjected = 0
    /\ hasLeft = [p \in Peers |-> FALSE]
    /\ saidGoodbye = [p \in Peers |-> FALSE]
    /\ snapshotSent = {}

\* ws_write.send(..) towards the peer of p
SendTo(w, p, msgs) == [w EXCEPT ![Other(p)] = @ \o msgs]

\* a seeded fault: the creator, too, waits for the peer's SPAKE2 message
\* before it sends its own
CreatorAwaitsSpakeFirst ==
    /\ hs["creator"] = "send_spake"
    /\ hs' = [hs EXCEPT !["creator"] = "recv_spake"]
    /\ UNCHANGED <<lcode, clientNum, wire, cipher, lstatus, lpeer, lhandle, ldoc, outq,
                   key_rotation_epoch, sealed, undecryptable, opened, nWrites, nTicks>>
    /\ UNCHANGED <<emitted, swallowed, nInjected, hasLeft, saidGoodbye, snapshotSent>>
    /\ UNCHANGED notLink

\* handle_creator_connection: "SPAKE2 Key Exchange", the send
CreatorSendSpake ==
    /\ hs["creator"] = "send_spake"
    /\ wire' = SendTo(wire, "creator", <<Spake2Msg(PairingStart("creator", lcode["creator"]))>>)
    /\ hs' = [hs EXCEPT !["creator"] = "recv_spake"]
    /\ UNCHANGED <<lcode, clientNum, cipher, lstatus, lpeer, lhandle, ldoc, outq,
                   key_rotation_epoch, sealed, undecryptable, opened, nWrites, nTicks>>
    /\ UNCHANGED <<emitted, swallowed, nInjected, hasLeft, saidGoodbye, snapshotSent>>
    /\ UNCHANGED notLink

\* handle_creator_connection: ws_read.next(), extract_spake2_payload,
\* creator.finish, then send_encrypted_device_info
CreatorRecvSpake ==
    /\ hs["creator"] = "recv_spake"
    /\ wire["creator"] # <<>>
    /\ LET msg == Head(wire["creator"])
       IN IF msg.type = "spake2"
          THEN LET c == from_shared_secret(PairingFinish("creator", lcode["creator"], msg.payload))
                   env == Envelope(c, DeviceInfo("creator"))
               IN /\ cipher' = [cipher EXCEPT !["creator"] = AfterEncrypt(c)]
                  /\ sealed' = sealed \cup {env}
                  /\ wire' = [wire EXCEPT !["creator"] = Tail(@),
                                          !["joiner"] = Append(@, UpdateMsg(env))]
                  /\ hs' = [hs EXCEPT !["creator"] = "recv_info"]
          ELSE \* Err("Expected SPAKE2 message"): the listener task logs it and ends
               /\ wire' = [wire EXCEPT !["creator"] = Tail(@)]
               /\ hs' = [hs EXCEPT !["creator"] = "failed"]
               /\ UNCHANGED <<cipher, sealed>>
    /\ UNCHANGED <<lcode, clientNum, lstatus, lpeer, lhandle, ldoc, outq,
                   key_rotation_epoch, undecryptable, opened, nWrites, nTicks>>
    /\ UNCHANGED <<emitted, swallowed, nInjected, hasLeft, saidGoodbye, snapshotSent>>
    /\ UNCHANGED notLink

\* history only: the frame is an Update sealed under the key device p holds
SealedUnderKeyOf(p, msg) == msg.type = "update" /\ msg.envelope.key = KeyOf(cipher[p])

\* receive_encrypted_device_info: Ok(PeerInfo) exactly for an Update whose
\* envelope decrypts to a DeviceInfo
InfoOk(p, msg) ==
    /\ msg.type = "update"
    /\ DecryptOk(cipher[p], msg.envelope)
    /\ msg.envelope.pt.type = "device_info"

\* handle_creator_connection: receive_encrypted_device_info, then
\* "Update state to Connected"
CreatorRecvInfo ==
    /\ hs["creator"] = "recv_info"
    /\ wire["creator"] # <<>>
    /\ LET msg == Head(wire["creator"])
       IN /\ wire' = [wire EXCEPT !["creator"] = Tail(@)]
          /\ IF InfoOk("creator", msg)
             THEN /\ lstatus' = [lstatus EXCEPT !["creator"] = "Connected"]
                  /\ lpeer' = [lpeer EXCEPT !["creator"] = msg.envelope.pt.device_id]
                  /\ hs' = [hs EXCEPT !["creator"] = "send_init"]
             ELSE \* the error is returned to the listener task, which logs it
                  /\ hs' = [hs EXCEPT !["creator"] = "failed"]
                  /\ UNCHANGED <<lstatus, lpeer>>
          /\ opened' = [opened EXCEPT !["creator"] = @ \/ SealedUnderKeyOf("creator", msg)]
    /\ UNCHANGED <<lcode, clientNum, cipher, lhandle, ldoc, outq,
                   key_rotation_epoch, sealed, undecryptable, nWrites, nTicks>>
    /\ UNCHANGED <<emitted, swallowed, nInjected, hasLeft, saidGoodbye, snapshotSent>>
    /\ UNCHANGED notLink

\* handle_creator_connection: "Send initial state to joiner"
CreatorSendInit ==
    /\ hs["creator"] = "send_init"
    /\ LET env == Envelope(cipher["creator"], DocUpdate(encode_state_as_update(ldoc["creator"])))
       IN /\ cipher' = [cipher EXCEPT !["creator"] = AfterEncrypt(@)]
          /\ sealed' = sealed \cup {env}
          /\ wire' = SendTo(wire, "creator", <<UpdateMsg(env)>>)
          /\ snapshotSent' = {env}
    /\ hs' = [hs EXCEPT !["creator"] = "loop"]
    /\ UNCHANGED <<lcode, clientNum, lstatus, lpeer, lhandle, ldoc, outq,
                   key_rotation_epoch, undecryptable, opened, nWrites, nTicks>>
    /\ UNCHANGED <<emitted, swallowed, nInjected, hasLeft, saidGoodbye>>
    /\ UNCHANGED notLink

\* start_joiner_transport: ws_read.next(), extract_spake2_payload, send the
\* own SPAKE2 message, joiner.finish
JoinerRecvSpake ==
    /\ hs["joiner"] = "recv_spake"
    /\ wire["joiner"] # <<>>
    /\ LET msg == Head(wire["joiner"])
       IN IF msg.type = "spake2"
          THEN /\ wire' = [wire EXCEPT !["joiner"] = Tail(@),
                              !["creator"] = Append(@, Spake2Msg(PairingStart("joiner", lcode["joiner"])))]
               /\ cipher' = [cipher EXCEPT !["joiner"] =
                               from_shared_secret(PairingFinish("joiner", lcode["joiner"], msg.payload))]
               /\ hs' = [hs EXCEPT !["joiner"] = "recv_info"]
          ELSE /\ wire' = [wire EXCEPT !["joiner"] = Tail(@)]
               /\ hs' = [hs EXCEPT !["joiner"] = "failed"]
               /\ UNCHANGED cipher
    /\ UNCHANGED <<lcode, clientNum, lstatus, lpeer, lhandle, ldoc, outq,
                   key_rotation_epoch, sealed, undecryptable, opened, nWrites, nTicks>>
    /\ UNCHANGED <<emitted, swallowed, nInjected, hasLeft, saidGoodbye, snapshotSent>>
    /\ UNCHANGED notLink

\* start_joiner_transport: receive_encrypted_device_info,
\* send_encrypted_device_info, "Update state to Connected", spawn of the loop
JoinerRecvInfo ==
    /\ hs["joiner"] = "recv_info"
    /\ wire["joiner"] # <<>>
    /\ LET msg == Head(wire["joiner"])
           env == Envelope(cipher["joiner"], DeviceInfo("joiner"))
       IN IF InfoOk("joiner", msg)
          THEN /\ cipher' = [cipher EXCEPT !["joiner"] = AfterEncrypt(@)]
               /\ sealed' = sealed \cup {env}
               /\ wire' = [wire EXCEPT !["joiner"] = Tail(@),
                                       !["creator"] = Append(@, UpdateMsg(env))]
               /\ lstatus' = [lstatus EXCEPT !["joiner"] = "Connected"]
               /\ lpeer' = [lpeer EXCEPT !["joiner"] = msg.envelope.pt.device_id]
               /\ lhandle' = [lhandle EXCEPT !["joiner"] = "pending"]
               /\ hs' = [hs EXCEPT !["joiner"] = "loop"]
          ELSE /\ wire' = [wire EXCEPT !["joiner"] = Tail(@)]
               /\ hs' = [hs EXCEPT !["joiner"] = "failed"]
               /\ UNCHANGED <<cipher, sealed, lstatus, lpeer, lhandle>>
    /\ opened' = [opened EXCEPT !["joiner"] = @ \/ SealedUnderKeyOf("joiner", Head(wire["joiner"]))]
    /\ UNCHANGED <<lcode, clientNum, ldoc, outq,
                   key_rotation_epoch, undecryptable, nWrites, nTicks>>
    /\ UNCHANGED <<emitted, swallowed, nInjected, hasLeft, saidGoodbye, snapshotSent>>
    /\ UNCHANGED notLink

\* join_sync_session, the spawned task: Ok(handle) => s.transport = Some(handle)
JoinerStoreHandle ==
    /\ lhandle["joiner"] = "pending"
    /\ lhandle' = [lhandle EXCEPT !["joiner"] = "stored"]
    /\ UNCHANGED <<lcode, clientNum, hs, wire, cipher, lstatus, lpeer, ldoc, outq,
                   key_rotation_epoch, sealed, undecryptable, opened, nWrites, nTicks>>
    /\ UNCHANGED <<emitted, swallowed, nInjected, hasLeft, saidGoodbye, snapshotSent>>
    /\ UNCHANGED notLink

\* join_sync_session, the spawned task: Err(e) => reset_session, sync-error
\* (the LAN attempt failed and the relay path found no peer)
JoinerGiveUp ==
    /\ hs["joiner"] = "failed"
    /\ lstatus["joiner"] = "Connecting"
    /\ lstatus' = [lstatus EXCEPT !["joiner"] = "Disconnected"]
    /\ UNCHANGED <<lcode, clientNum, hs, wire, cipher, lpeer, lhandle, ldoc, outq,
                   key_rotation_epoch, sealed, undecryptable, opened, nWrites, nTicks>>
    /\ UNCHANGED <<emitted, swallowed, nInjected, hasLeft, saidGoodbye, snapshotSent>>
    /\ UNCHANGED notLink

\* sync_update_transcript / sync_update_agent_result on device p
UpdateDoc(p, key, val) ==
    /\ nWrites < MaxWrites
    /\ lstatus[p] = "Connected"
    /\ lhandle[p] = "stored"
    /\ nWrites' = nWrites + 1
    /\ LET d == MapInsert(ldoc[p], clientNum[p], key, val)
       IN /\ ldoc' = [ldoc EXCEPT ![p] = d]
          /\ outq' = [outq EXCEPT ![p] = Append(@, encode_state_as_update(d))]
    /\ UNCHANGED <<lcode, clientNum, hs, wire, cipher, lstatus, lpeer, lhandle,
                   key_rotation_epoch, sealed, undecryptable, opened, nTicks>>
    /\ UNCHANGED <<emitted, swallowed, nInjected, hasLeft, saidGoodbye, snapshotSent>>
    /\ UNCHANGED notLink

\* the lines after run_sync_loop returns: "Clean up state on disconnect"
\* (reset_session when the status is not Disconnected)
LoopExit(p) ==
    /\ hs' = [hs EXCEPT ![p] = "exited"]
    /\ IF lstatus[p] # "Disconnected"
       THEN /\ lstatus' = [lstatus EXCEPT ![p] = "Disconnected"]
            /\ lpeer' = [lpeer EXCEPT ![p] = None]
            /\ lhandle' = [lhandle EXCEPT ![p] = IF @ = "stored" THEN "none" ELSE @]
            /\ ldoc' = [ldoc EXCEPT ![p] = {}]
            /\ outq' = [outq EXCEPT ![p] = <<>>]
       ELSE UNCHANGED <<lstatus, lpeer, lhandle, ldoc, outq>>

\* a seeded fault: every decrypted payload counts as applied
ApplyAnything(pt) == TRUE

\* SyncDocument::apply_update: Update::decode_v1 takes the bytes of a yrs
\* update and fails, before the document is touched, on anything else
ApplyOk(pt) == pt.type = "yrs_update"

\* a text frame that serde_json cannot read as a SyncMessage
Unparsable == [type |-> "unparsable"]

\* run_sync_loop, "Inbound: message from remote peer"
LoopRecv(p) ==
    /\ hs[p] = "loop"
    /\ wire[p] # <<>>
    /\ LET msg == Head(wire[p])
       IN /\ wire' = [wire EXCEPT ![p] = Tail(@)]
          /\ CASE msg.type = "update" ->
                    IF DecryptOk(cipher[p], msg.envelope)
                    THEN /\ IF ApplyOk(msg.envelope.pt)
                            THEN \* apply_update, then app.emit("sync-state-updated")
                                 /\ ldoc' = [ldoc EXCEPT ![p] =
                                               apply_update(@, msg.envelope.pt.items)]
                                 /\ emitted' = [emitted EXCEPT ![p] = @ + 1]
                                 /\ UNCHANGED swallowed
                            ELSE \* "Failed to apply sync update"
                                 /\ swallowed' = [swallowed EXCEPT ![p] = @ \cup {"apply"}]
                                 /\ UNCHANGED <<ldoc, emitted>>
                         /\ UNCHANGED <<hs, cipher, key_rotation_epoch, undecryptable, lstatus, lpeer,
                                        lhandle, outq>>
                    ELSE \* "Failed to decrypt sync update": the frame is dropped
                         /\ undecryptable' = [undecryptable EXCEPT ![p] = @ + 1]
                         /\ swallowed' = [swallowed EXCEPT ![p] = @ \cup {"decrypt"}]
                         /\ UNCHANGED <<hs, cipher, key_rotation_epoch, ldoc, lstatus, lpeer,
                                        lhandle, outq, emitted>>
               [] msg.type = "key_rotate" ->
                    /\ IF msg.epoch > key_rotation_epoch[p]
                       THEN /\ cipher' = [cipher EXCEPT ![p] = rotate_key(@)]
                            /\ key_rotation_epoch' = [key_rotation_epoch EXCEPT ![p] = msg.epoch]
                       ELSE UNCHANGED <<cipher, key_rotation_epoch>>
                    /\ UNCHANGED <<hs, ldoc, undecryptable, lstatus, lpeer, lhandle, outq,
                                   emitted, swallowed>>
               [] msg.type = "goodbye" ->
                    /\ LoopExit(p)
                    /\ UNCHANGED <<cipher, key_rotation_epoch, undecryptable, emitted, swallowed>>
               [] msg.type = "unparsable" -> \* "Failed to parse sync message"
                    /\ swallowed' = [swallowed EXCEPT ![p] = @ \cup {"parse"}]
                    /\ UNCHANGED <<hs, cipher, key_rotation_epoch, ldoc, undecryptable, lstatus,
                                   lpeer, lhandle, outq, emitted>>
               [] OTHER -> \* Heartbeat and every other type: nothing but the activity stamp
                    UNCHANGED <<hs, cipher, key_rotation_epoch, ldoc, undecryptable, lstatus,
                                lpeer, lhandle, outq, emitted, swallowed>>
    /\ UNCHANGED <<lcode, clientNum, sealed, opened, nWrites, nTicks, nInjected, hasLeft,
                   saidGoodbye, snapshotSent>>
    /\ UNCHANGED notLink

\* run_sync_loop, "Outbound: plaintext update from local application"
LoopSend(p) ==
    /\ hs[p] = "loop"
    /\ outq[p] # <<>>
    /\ LET env == Envelope(cipher[p], DocUpdate(Head(outq[p])))
       IN /\ cipher' = [cipher EXCEPT ![p] = AfterEncrypt(@)]
          /\ sealed' = sealed \cup {env}
          /\ wire' = SendTo(wire, p, <<UpdateMsg(env)>>)
    /\ outq' = [outq EXCEPT ![p] = Tail(@)]
    /\ UNCHANGED <<lcode, clientNum, hs, lstatus, lpeer, lhandle, ldoc,
                   key_rotation_epoch, undecryptable, opened, nWrites, nTicks>>
    /\ UNCHANGED <<emitted, swallowed, nInjected, hasLeft, saidGoodbye, snapshotSent>>
    /\ UNCHANGED notLink

\* ---- transport.rs: the timers of run_sync_loop (seconds) ----
HEARTBEAT_INTERVAL == 5
PEER_TIMEOUT == 15
SESSION_MAX_DURATION == 4 * 60 * 60
SESSION_WARNING_BEFORE == 15 * 60
KEY_ROTATION_INTERVAL == 30 * 60
session_warning_at == SESSION_MAX_DURATION - SESSION_WARNING_BEFORE

\* a seeded fault: the peer counts as silent at the timeout already
PeerSilentAtTimeout(sincePeer) == sincePeer >= PEER_TIMEOUT

\* "Dead man's switch": last_peer_activity.elapsed() > PEER_TIMEOUT
PeerSilent(sincePeer) == sincePeer > PEER_TIMEOUT

\* "Session timeout check": elapsed >= SESSION_MAX_DURATION
SessionOver(sinceStart) == sinceStart >= SESSION_MAX_DURATION

\* a seeded fault: the warning does not look at session_warning_sent
WarningDueEveryTick(warned, sinceStart) == sinceStart >= session_warning_at

\* !session_warning_sent && elapsed >= session_warning_at
WarningDue(warned, sinceStart) == ~warned /\ sinceStart >= session_warning_at

\* "Forward secrecy": last_key_rotation.elapsed() >= KEY_ROTATION_INTERVAL
RotationDue(sinceRotation) == sinceRotation >= KEY_ROTATION_INTERVAL

\* the result of one pass through the heartbeat branch
TickResult(exit, frames, delivered, events, c, epoch, warned, rotated) ==
    [exit |-> exit, frames |-> frames, delivered |-> delivered, events |-> events,
     cipher |-> c, epoch |-> epoch, warned |-> warned, rotated |-> rotated]

\* a seeded fault: the key is rotated before the peer is notified
TickRotateFirst(c, epoch, warned, sincePeer, sinceStart, sinceRotation, hbSent, krSent) ==
    IF PeerSilent(sincePeer)
    THEN TickResult(TRUE, <<>>, <<>>, <<"sync-heartbeat-timeout">>, c, epoch, warned, FALSE)
    ELSE IF ~hbSent
    THEN TickResult(TRUE, <<HeartbeatMsg>>, <<>>, <<>>, c, epoch, warned, FALSE)
    ELSE IF SessionOver(sinceStart)
    THEN TickResult(TRUE, <<HeartbeatMsg, GoodbyeMsg>>, <<HeartbeatMsg, GoodbyeMsg>>,
                    <<"sync-session-timeout">>, c, epoch, warned, FALSE)
    ELSE LET warn == WarningDue(warned, sinceStart)
             ev == IF warn THEN <<"sync-session-warning">> ELSE <<>>
         IN IF RotationDue(sinceRotation)
            THEN IF krSent
                 THEN TickResult(FALSE, <<HeartbeatMsg, KeyRotateMsg(epoch + 1)>>,
                                 <<HeartbeatMsg, KeyRotateMsg(epoch + 1)>>, ev,
                                 rotate_key(c), epoch + 1, warned \/ warn, TRUE)
                 ELSE TickResult(TRUE, <<HeartbeatMsg, KeyRotateMsg(epoch + 1)>>,
                                 <<HeartbeatMsg>>, ev, rotate_key(c), epoch + 1,
                                 warned \/ warn, TRUE)
            ELSE TickResult(FALSE, <<HeartbeatMsg>>, <<HeartbeatMsg>>, ev, c, epoch,
                            warned \/ warn, FALSE)

\* a seeded fault: the timer's rotation notifies the peer and counts the
\* epoch but leaves the key as it is
TickSkipsRotation(c, epoch, warned, sincePeer, sinceStart, sinceRotation, hbSent, krSent) ==
    IF PeerSilent(sincePeer)
    THEN TickResult(TRUE, <<>>, <<>>, <<"sync-heartbeat-timeout">>, c, epoch, warned, FALSE)
    ELSE IF ~hbSent
    THEN TickResult(TRUE, <<HeartbeatMsg>>, <<>>, <<>>, c, epoch, warned, FALSE)
    ELSE IF SessionOver(sinceStart)
    THEN TickResult(TRUE, <<HeartbeatMsg, GoodbyeMsg>>, <<HeartbeatMsg, GoodbyeMsg>>,
                    <<"sync-session-timeout">>, c, epoch, warned, FALSE)
    ELSE LET warn == WarningDue(warned, sinceStart)
             ev == IF warn THEN <<"sync-session-warning">> ELSE <<>>
         IN IF RotationDue(sinceRotation)
            THEN IF krSent
                 THEN TickResult(FALSE, <<HeartbeatMsg, KeyRotateMsg(epoch + 1)>>,
                                 <<HeartbeatMsg, KeyRotateMsg(epoch + 1)>>, ev,
                                 c, epoch + 1, warned \/ warn, TRUE)
                 ELSE TickResult(TRUE, <<HeartbeatMsg, KeyRotateMsg(epoch + 1)>>,
                                 <<HeartbeatMsg>>, ev, c, epoch + 1, warned \/ warn, FALSE)
            ELSE TickResult(FALSE, <<HeartbeatMsg>>, <<HeartbeatMsg>>, ev, c, epoch,
                            warned \/ warn, FALSE)

\* run_sync_loop, "Heartbeat timer": one pass through the branch, as a
\* function of the loop's cipher, key_rotation_epoch and session_warning_sent,
\* of the three elapsed times, and of whether the send_msg of the Heartbeat
\* (hbSent) and of the KeyRotate (krSent) succeed. frames are the messages
\* handed to send_msg, delivered those whose send succeeded; the Goodbye of
\* the session timeout is sent with `let _ =`.
Tick(c, epoch, warned, sincePeer, sinceStart, sinceRotation, hbSent, krSent) ==
    IF PeerSilent(sincePeer)
    THEN TickResult(TRUE, <<>>, <<>>, <<"sync-heartbeat-timeout">>, c, epoch, warned, FALSE)
    ELSE IF ~hbSent
    THEN TickResult(TRUE, <<HeartbeatMsg>>, <<>>, <<>>, c, epoch, warned, FALSE)
    ELSE IF SessionOver(sinceStart)
    THEN TickResult(TRUE, <<HeartbeatMsg, GoodbyeMsg>>, <<HeartbeatMsg, GoodbyeMsg>>,
                    <<"sync-session-timeout">>, c, epoch, warned, FALSE)
    ELSE LET warn == WarningDue(warned, sinceStart)
             ev == IF warn THEN <<"sync-session-warning">> ELSE <<>>
         IN IF RotationDue(sinceRotation)
            THEN IF krSent
                 THEN TickResult(FALSE, <<HeartbeatMsg, KeyRotateMsg(epoch + 1)>>,
                                 <<HeartbeatMsg, KeyRotateMsg(epoch + 1)>>, ev,
                                 rotate_key(c), epoch + 1, warned \/ warn, TRUE)
                 ELSE TickResult(TRUE, <<HeartbeatMsg, KeyRotateMsg(epoch + 1)>>,
                                 <<HeartbeatMsg>>, ev, c, epoch + 1, warned \/ warn, FALSE)
            ELSE TickResult(FALSE, <<HeartbeatMsg>>, <<HeartbeatMsg>>, ev, c, epoch,
                            warned \/ warn, FALSE)

\* the ways through the heartbeat branch: the peer is silent; the Heartbeat
\* cannot be sent; the session limit is reached; a rotation is due and the
\* KeyRotate is sent, or cannot be sent; none of these
TickPaths == {"silent", "hb_fail", "session_over", "rotate", "rotate_fail", "beat"}

\* the heartbeat timer fires in the loop of device p and the pass takes the
\* given way; a send fails when the socket has broken
TickStep(p, path) ==
    /\ hs[p] = "loop"
    /\ LET r == Tick(cipher[p], key_rotation_epoch[p], FALSE,
                     IF path = "silent" THEN PEER_TIMEOUT + 1 ELSE 0,
                     IF path = "session_over" THEN SESSION_MAX_DURATION ELSE 0,
                     IF path \in {"rotate", "rotate_fail"} THEN KEY_ROTATION_INTERVAL ELSE 0,
                     path # "hb_fail", path # "rotate_fail")
       IN /\ wire' = SendTo(wire, p, r.delivered)
          /\ cipher' = [cipher EXCEPT ![p] = r.cipher]
          /\ key_rotation_epoch' = [key_rotation_epoch EXCEPT ![p] = r.epoch]
          /\ saidGoodbye' = [saidGoodbye EXCEPT ![p] =
                                @ \/ \E i \in DOMAIN r.frames : r.frames[i] = GoodbyeMsg]
          /\ IF r.exit
             THEN LoopExit(p)
             ELSE UNCHANGED <<hs, lstatus, lpeer, lhandle, ldoc, outq>>
    /\ UNCHANGED <<lcode, clientNum, sealed, undecryptable, opened, nWrites, emitted,
                   swallowed, nInjected, hasLeft,
                   snapshotSent>>
    /\ UNCHANGED notLink

\* a tick within the run's budget of ticks
LoopTick(p, path) ==
    /\ nTicks < MaxTicks
    /\ nTicks' = nTicks + 1
    /\ TickStep(p, path)

\* the peer's task has ended and dropped its socket
PeerGone(p) == hs[Other(p)] \in {"failed", "exited"} /\ wire[p] = <<>>

\* run_sync_loop: ws_read.next() gives None ("connection closed")
LoopClosed(p) ==
    /\ hs[p] = "loop"
    /\ PeerGone(p)
    /\ LoopExit(p)
    /\ UNCHANGED <<lcode, clientNum, wire, cipher, key_rotation_epoch, sealed,
                   undecryptable, opened, nWrites, nTicks>>
    /\ UNCHANGED <<emitted, swallowed, nInjected, hasLeft, saidGoodbye, snapshotSent>>
    /\ UNCHANGED notLink

\* ws_read.next() gives None during the handshake: "Connection closed during
\* SPAKE2" / "Connection closed while waiting for device info"
HandshakeClosed(p) ==
    /\ hs[p] \in {"recv_spake", "recv_info"}
    /\ PeerGone(p)
    /\ hs' = [hs EXCEPT ![p] = "failed"]
    /\ UNCHANGED <<lcode, clientNum, wire, cipher, lstatus, lpeer, lhandle, ldoc, outq,
                   key_rotation_epoch, sealed, undecryptable, opened, nWrites, nTicks>>
    /\ UNCHANGED <<emitted, swallowed, nInjected, hasLeft, saidGoodbye, snapshotSent>>
    /\ UNCHANGED notLink

\* the tick on which KEY_ROTATION_INTERVAL has passed since the loop's last
\* rotation; the KeyRotate is sent or, on a broken socket, is not
RotationTimer(p, path) ==
    /\ path \in {"rotate", "rotate_fail"}
    /\ key_rotation_epoch[p] < MaxRotations
    /\ TickStep(p, path)
    /\ UNCHANGED nTicks

\* ---- leaving a running session ----
\* leave_sync_session on a Connected device p: reset_session drops the handle
\* SyncState.transport holds, if it holds one. ldoc stays the document the
\* loop keeps its Arc of; the fresh one SyncState gets is not followed.
LinkLeave(p) ==
    /\ lstatus[p] = "Connected"
    /\ lstatus' = [lstatus EXCEPT ![p] = "Disconnected"]
    /\ lpeer' = [lpeer EXCEPT ![p] = None]
    /\ lhandle' = [lhandle EXCEPT ![p] = IF @ = "stored" THEN "none" ELSE @]
    /\ hasLeft' = [hasLeft EXCEPT ![p] = TRUE]
    /\ UNCHANGED <<lcode, clientNum, hs, wire, cipher, ldoc, outq, key_rotation_epoch,
                   sealed, undecryptable, opened, emitted, swallowed, nWrites, nTicks,
                   nInjected, saidGoodbye, snapshotSent>>
    /\ UNCHANGED notLink

\* a seeded fault: the loop ends on the closed queue without a Goodbye
LoopQueueClosedSilently(p) ==
    /\ hs[p] = "loop"
    /\ lhandle[p] = "none"
    /\ outq[p] = <<>>
    /\ LoopExit(p)
    /\ UNCHANGED <<lcode, clientNum, wire, cipher, key_rotation_epoch, sealed, undecryptable,
                   opened, emitted, swallowed, nWrites, nTicks, nInjected,
                   hasLeft, saidGoodbye, snapshotSent>>
    /\ UNCHANGED notLink

\* run_sync_loop, outbound branch: outbound_rx.recv() gives None once every
\* sender is dropped and the queue is drained; Goodbye, break
LoopQueueClosed(p) ==
    /\ hs[p] = "loop"
    /\ lhandle[p] = "none"
    /\ outq[p] = <<>>
    /\ wire' = SendTo(wire, p, <<GoodbyeMsg>>)
    /\ saidGoodbye' = [saidGoodbye EXCEPT ![p] = TRUE]
    /\ LoopExit(p)
    /\ UNCHANGED <<lcode, clientNum, cipher, key_rotation_epoch, sealed, undecryptable,
                   opened, emitted, swallowed, nWrites, nTicks, nInjected, hasLeft,
                   snapshotSent>>
    /\ UNCHANGED notLink

\* the tick on which the session has lasted SESSION_MAX_DURATION: it comes
\* to every loop that runs that long
SessionLimit(p) ==
    /\ TickStep(p, "session_over")
    /\ UNCHANGED nTicks

\* ---- frames that do not come from the peer's loop ----
\* Bound of the interference model.
MaxInjected == 1    \* frames put on the link by a third party

\* an envelope sealed under a key neither device holds, around an update that
\* would change the document if it were applied
ForgedEnvelope ==
    [counter |-> 0,
     key |-> [secret |-> [base |-> "forged", residue |-> <<>>], gen |-> 0],
     pt |-> DocUpdate({[id |-> <<1, 9>>, key |-> "transcript", origin |-> NoItem, val |-> "v2"]})]

\* what a third party on the LAN can put into the stream towards a device:
\* text that is no SyncMessage, an Update around an envelope of its own
\* making, and a replay of a handshake frame (decrypt takes the nonce from
\* the envelope, so the DeviceInfo envelope still opens; its plaintext is
\* JSON, not a yrs update)
InjectedFrames ==
    {Unparsable, UpdateMsg(ForgedEnvelope)}
        \cup {UpdateMsg(env) : env \in {e \in sealed : e.pt.type = "device_info"}}

\* a third party writes a frame into the stream towards device p while its
\* sync loop runs
Inject(p) ==
    /\ hs[p] = "loop"
    /\ nInjected < MaxInjected
    /\ nInjected' = nInjected + 1
    /\ \E f \in InjectedFrames : wire' = [wire EXCEPT ![p] = Append(@, f)]
    /\ UNCHANGED <<lcode, clientNum, hs, cipher, lstatus, lpeer, lhandle, ldoc, outq,
                   key_rotation_epoch, sealed, undecryptable, opened, emitted, swallowed,
                   nWrites, nTicks, hasLeft, saidGoodbye, snapshotSent>>
    /\ UNCHANGED notLink

(***************************************************************************)
(* Part II-c -- one sync loop against the clock: the heartbeat timer, the  *)
(* peer timeout, the session limit and the rotation interval               *)
(* (sync/transport.rs, run_sync_loop). Time is counted in seconds since    *)
(* session_start; the timer fires on its deadlines and the loop handles a  *)
(* tick at the instant it fires. The peer is the environment: its frames   *)
(* arrive at any second, or stop arriving.                                 *)
(***************************************************************************)

LoopStep(kind, frames, events) == [kind |-> kind, frames |-> frames, events |-> events]

\* the line after the loop: app.emit("sync-disconnected")
AtExit(exit, events) == IF exit THEN events \o <<"sync-disconnected">> ELSE events

\* run_sync_loop up to `loop`: the interval's first tick is consumed, the
\* three instants are taken; the cipher is the one the creator's handshake
\* hands over (DeviceInfo and the initial snapshot are sealed)
TimerInit ==
    /\ loop = [running |-> TRUE, now |-> 0, next_tick |-> HEARTBEAT_INTERVAL,
               last_peer_activity |-> 0, last_key_rotation |-> 0,
               session_warning_sent |-> FALSE, key_rotation_epoch |-> 0,
               encryption |-> AfterEncrypt(AfterEncrypt(from_shared_secret(
                   PairingFinish("creator", "7-violet-castle",
                                 PairingStart("joiner", "7-violet-castle"))))),
               warnings |-> 0]
    /\ loopLast = LoopStep("start", <<>>, <<>>)

\* a second passes with nothing ready in the select
TimePasses ==
    /\ loop.running
    /\ loop.now < loop.next_tick
    /\ loop' = [loop EXCEPT !.now = @ + 1]
    /\ loopLast' = LoopStep("time", <<>>, <<>>)
    /\ UNCHANGED notTimer

\* "Inbound: message from remote peer": a frame that keeps the loop running
\* (Update, Heartbeat, an unknown or unparsable text, ping, pong, binary), or
\* a Goodbye
TimedInbound(kind) ==
    /\ loop.running
    /\ loop' = [loop EXCEPT !.last_peer_activity = loop.now,
                            !.running = kind # "goodbye"]
    /\ loopLast' = LoopStep("inbound", <<>>, AtExit(kind = "goodbye", <<>>))
    /\ UNCHANGED notTimer

\* "Heartbeat timer": the interval fires
TimedTick(hbSent, krSent) ==
    /\ loop.running
    /\ loop.now = loop.next_tick
    /\ LET r == Tick(loop.encryption, loop.key_rotation_epoch, loop.session_warning_sent,
                     loop.now - loop.last_peer_activity, loop.now,
                     loop.now - loop.last_key_rotation, hbSent, krSent)
           warned == Cardinality({i \in 1 .. Len(r.events) :
                                     r.events[i] = "sync-session-warning"})
       IN /\ loop' = [loop EXCEPT !.next_tick = @ + HEARTBEAT_INTERVAL,
                                  !.running = ~r.exit,
                                  !.encryption = r.cipher,
                                  !.key_rotation_epoch = r.epoch,
                                  !.session_warning_sent = r.warned,
                                  !.last_key_rotation = IF r.rotated THEN loop.now ELSE @,
                                  !.warnings = @ + warned]
          /\ loopLast' = LoopStep("tick", r.frames, AtExit(r.exit, r.events))
    /\ UNCHANGED notTimer

(***************************************************************************)
(* Part II-b -- two SyncDocument replicas exchanging full-state updates    *)
(* over a network that reorders and duplicates (sync/document.rs)          *)
(***************************************************************************)

\* Bound of the replica model.
MaxDocWrites == 2   \* set_transcript / set_agent_result calls, both replicas together

\* SyncDocument::new() on both devices; the two yrs Docs drew different
\* client ids
DocInit ==
    /\ clientNum \in {f \in [Peers -> {1, 2}] : f["creator"] # f["joiner"]}
    /\ ldoc = [p \in Peers |-> {}]
    /\ nWrites = 0
    /\ updates = {}
    /\ applied = [p \in Peers |-> {}]
    /\ lcode = None /\ hs = None /\ wire = None /\ cipher = None /\ lstatus = None
    /\ lpeer = None /\ lhandle = None /\ outq = None /\ key_rotation_epoch = None
    /\ sealed = {} /\ undecryptable = None /\ opened = None /\ nTicks = 0
    /\ emitted = None /\ swallowed = None /\ nInjected = 0
    /\ hasLeft = None /\ saidGoodbye = None /\ snapshotSent = None

DocRest == <<lcode, hs, wire, cipher, lstatus, lpeer, lhandle, outq, key_rotation_epoch,
             sealed, undecryptable, opened, nTicks, emitted, swallowed, nInjected,
             hasLeft, saidGoodbye, snapshotSent>>

\* set_transcript / set_agent_result on replica p
DocWrite(p, key, val) ==
    /\ nWrites < MaxDocWrites
    /\ nWrites' = nWrites + 1
    /\ ldoc' = [ldoc EXCEPT ![p] = MapInsert(@, clientNum[p], key, val)]
    /\ UNCHANGED <<clientNum, updates, applied, DocRest>>
    /\ UNCHANGED notDoc

\* encode_state_as_update on replica p; the bytes are handed to the network
DocEncode(p) ==
    /\ updates' = updates \cup {encode_state_as_update(ldoc[p])}
    /\ UNCHANGED <<clientNum, ldoc, nWrites, applied, DocRest>>
    /\ UNCHANGED notDoc

\* apply_update on replica p of any update encoding produced so far
DocApply(p) ==
    /\ \E u \in updates :
          /\ ldoc' = [ldoc EXCEPT ![p] = apply_update(@, u)]
          /\ applied' = [applied EXCEPT ![p] = @ \cup u]
    /\ UNCHANGED <<clientNum, updates, nWrites, DocRest>>
    /\ UNCHANGED notDoc

(***************************************************************************)
(* Part II-d -- the creator's WebRTC negotiation through the signaling     *)
(* relay, from the end of the SPAKE2 exchange to the wait for the data     *)
(* channel (sync/webrtc.rs, establish_webrtc_transport with is_creator).   *)
(* The peer connection's callbacks run on libdatachannel's threads, at any *)
(* point of the negotiation task. The peer is the environment: it sends    *)
(* one SDP answer, its candidates and one ice_done, the answer before,     *)
(* among or after the rest.                                                *)
(***************************************************************************)

\* Bound of the negotiation model.
MaxCandidates == 2    \* ICE candidates each side gathers

\* ---- webrtc.rs: SignalingPayload ----
SdpPayload(sdp_type) == [type |-> "sdp", sdp_type |-> sdp_type]
IcePayload(candidate) == [type |-> "ice", candidate |-> candidate]
IceDonePayload == [type |-> "ice_done"]

\* the n-th envelope the peer seals under the session key
PeerEnvelope(n, pt) == [counter |-> n, key |-> KeyOf(rtcCipher), pt |-> pt]

RtcInit ==
    /\ nego = "create_dc"
    /\ inbox = <<>>
    /\ outlog = <<>>
    /\ ice_rx = <<>>
    /\ gathering = "new"
    /\ gatheredIce = {}
    /\ remoteDesc = FALSE
    /\ remoteIce = {}
    /\ rtcCipher = from_shared_secret(PairingFinish("creator", "7-violet-castle",
                                        PairingStart("joiner", "7-violet-castle")))
    /\ peerSent = [answer |-> FALSE, ice |-> 0, done |-> FALSE]

\* encryption.encrypt, serde_json::to_string, signaling.send
SignalingSend(pt) ==
    /\ outlog' = Append(outlog, Envelope(rtcCipher, pt))
    /\ rtcCipher' = AfterEncrypt(rtcCipher)

\* pc.create_data_channel_ex: the local description is set and the
\* gathering of candidates begins
RtcCreateChannel ==
    /\ nego = "create_dc"
    /\ nego' = "send_offer"
    /\ gathering' = "in_progress"
    /\ UNCHANGED <<inbox, outlog, ice_rx, gatheredIce, remoteDesc, remoteIce, rtcCipher, peerSent>>
    /\ UNCHANGED notRtc

\* "Send encrypted SDP offer"
RtcSendOffer ==
    /\ nego = "send_offer"
    /\ SignalingSend(SdpPayload("offer"))
    /\ nego' = "drain"
    /\ UNCHANGED <<inbox, ice_rx, gathering, gatheredIce, remoteDesc, remoteIce, peerSent>>
    /\ UNCHANGED notRtc

\* PcHandler::on_candidate: ice_tx.send(candidate)
OnCandidate ==
    /\ gathering = "in_progress"
    /\ Cardinality(gatheredIce) < MaxCandidates
    /\ LET c == <<"creator", Cardinality(gatheredIce) + 1>>
       IN /\ ice_rx' = Append(ice_rx, c)
          /\ gatheredIce' = gatheredIce \cup {c}
    /\ UNCHANGED <<nego, inbox, outlog, gathering, remoteDesc, remoteIce, rtcCipher, peerSent>>
    /\ UNCHANGED notRtc

\* PcHandler::on_gathering_state_change(Complete): gathering_done_tx.send(())
OnGatheringComplete ==
    /\ gathering = "in_progress"
    /\ gathering' = "complete"
    /\ UNCHANGED <<nego, inbox, outlog, ice_rx, gatheredIce, remoteDesc, remoteIce, rtcCipher,
                   peerSent>>
    /\ UNCHANGED notRtc

\* send_ice_candidates: one pass of `while let Ok(candidate) = ice_rx.try_recv()`;
\* the function returns on the first try_recv that finds the channel empty
RtcDrain ==
    /\ nego = "drain"
    /\ IF ice_rx # <<>>
       THEN /\ SignalingSend(IcePayload(Head(ice_rx)))
            /\ ice_rx' = Tail(ice_rx)
            /\ UNCHANGED nego
       ELSE /\ nego' = "await_gathering"
            /\ UNCHANGED <<outlog, rtcCipher, ice_rx>>
    /\ UNCHANGED <<inbox, gathering, gatheredIce, remoteDesc, remoteIce, peerSent>>
    /\ UNCHANGED notRtc

\* "Wait for gathering to complete, then signal done"
RtcIceDone ==
    /\ nego = "await_gathering"
    /\ gathering = "complete"
    /\ SignalingSend(IceDonePayload)
    /\ nego' = "recv_answer"
    /\ UNCHANGED <<inbox, ice_rx, gathering, gatheredIce, remoteDesc, remoteIce, peerSent>>
    /\ UNCHANGED notRtc

\* "Receive answer": recv_payload, decrypt, then the match on the payload
RtcRecvAnswer ==
    /\ nego = "recv_answer"
    /\ inbox # <<>>
    /\ inbox' = Tail(inbox)
    /\ IF DecryptOk(rtcCipher, Head(inbox)) /\ Head(inbox).pt.type = "sdp"
       THEN /\ remoteDesc' = TRUE
            /\ nego' = "recv_ice"
       ELSE \* Err("Expected SDP answer"), or the decrypt error
            /\ nego' = "failed"
            /\ UNCHANGED remoteDesc
    /\ UNCHANGED <<outlog, ice_rx, gathering, gatheredIce, remoteIce, rtcCipher, peerSent>>
    /\ UNCHANGED notRtc

\* receive_ice_candidates: one pass of its loop
RtcRecvIce ==
    /\ nego = "recv_ice"
    /\ inbox # <<>>
    /\ inbox' = Tail(inbox)
    /\ LET env == Head(inbox)
       IN IF ~DecryptOk(rtcCipher, env)
          THEN nego' = "failed" /\ UNCHANGED remoteIce
          ELSE CASE env.pt.type = "ice" ->
                       /\ remoteIce' = remoteIce \cup {env.pt.candidate}
                       /\ UNCHANGED nego
                 [] env.pt.type = "ice_done" ->
                       /\ nego' = "wait_open"
                       /\ UNCHANGED remoteIce
                 [] OTHER -> \* "unexpected payload during ICE gathering"
                       UNCHANGED <<nego, remoteIce>>
    /\ UNCHANGED <<outlog, ice_rx, gathering, gatheredIce, remoteDesc, rtcCipher, peerSent>>
    /\ UNCHANGED notRtc

\* the peer, once the offer is on its way: its answer, a candidate, or its
\* ice_done after the last candidate
PeerSend(kind) ==
    /\ outlog # <<>>
    /\ LET n == (IF peerSent.answer THEN 1 ELSE 0) + peerSent.ice
       IN CASE kind = "answer" ->
                 /\ ~peerSent.answer
                 /\ inbox' = Append(inbox, PeerEnvelope(n, SdpPayload("answer")))
                 /\ peerSent' = [peerSent EXCEPT !.answer = TRUE]
            [] kind = "ice" ->
                 /\ ~peerSent.done
                 /\ peerSent.ice < MaxCandidates
                 /\ inbox' = Append(inbox, PeerEnvelope(n, IcePayload(<<"joiner", peerSent.ice + 1>>)))
                 /\ peerSent' = [peerSent EXCEPT !.ice = @ + 1]
            [] kind = "ice_done" ->
                 /\ ~peerSent.done
                 /\ inbox' = Append(inbox, PeerEnvelope(n, IceDonePayload))
                 /\ peerSent' = [peerSent EXCEPT !.done = TRUE]
    /\ UNCHANGED <<nego, outlog, ice_rx, gathering, gatheredIce, remoteDesc, remoteIce, rtcCipher>>
    /\ UNCHANGED notRtc

(***************************************************************************)
(* Part II-e -- the SyncState mutex and the SyncDocument mutex of one      *)
(* device and the critical sections of the tasks that take them            *)
(* (sync/transport.rs, sync/mod.rs). A task is the sequence of its lock(), *)
(* guard drops and transport sends and receives, in program order; a task  *)
(* standing at a send or receive is suspended on it.                       *)
(***************************************************************************)

Mutexes == {"SyncState", "SyncDocument"}

Lock(m) == [op |-> "lock", on |-> m]
Unlock(m) == [op |-> "unlock", on |-> m]
Io(what) == [op |-> "io", on |-> what]

\* handle_creator_connection from "Exchange device info" on, one inbound
\* Update and one outbound update of run_sync_loop, and the cleanup
LanTask ==
    << Lock("SyncState"), Unlock("SyncState"),        \* transport.rs:195-198
       Io("send_encrypted_device_info"),              \* :199
       Io("receive_encrypted_device_info"),           \* :200
       Lock("SyncState"), Unlock("SyncState"),        \* :204-208
       Lock("SyncDocument"),                          \* :214
       Io("ws_write.send initial state"),             \* :219-222
       Unlock("SyncDocument"),                        \* :223
       Io("ws_read.next"),                            \* :481
       Lock("SyncDocument"), Unlock("SyncDocument"),  \* :490-497
       Io("send_msg update"),                         \* :554
       Lock("SyncState"), Unlock("SyncState") >>      \* :238-245

\* create_sync_session, the WebRTC fallback task once the transport is
\* established, up to the start of its sync loop
RtcTask ==
    << Lock("SyncState"), Unlock("SyncState"),        \* mod.rs:263-265
       Lock("SyncState"), Unlock("SyncState"),        \* :272-274
       Lock("SyncState"), Unlock("SyncState"),        \* :279-281
       Io("send_encrypted_device_info"),              \* :283
       Io("receive_encrypted_device_info"),           \* :287
       Lock("SyncDocument"),                          \* :296
       Io("send_msg initial state"),                  \* :301
       Unlock("SyncDocument"),                        \* :303
       Lock("SyncState"), Unlock("SyncState") >>      \* :309-313

\* sync_update_transcript
UpdateTask ==
    << Lock("SyncState"), Unlock("SyncState"),        \* mod.rs:458-466
       Lock("SyncDocument"), Unlock("SyncDocument"),  \* :468-472
       Io("transport.send_update") >>                 \* :474

Programs == [lan |-> LanTask, rtc |-> RtcTask, update |-> UpdateTask]

\* the instruction task t is at; a finished task is at none
At(t) == IF tpc[t] <= Len(Programs[t]) THEN Programs[t][tpc[t]] ELSE [op |-> "end", on |-> None]

LockInit ==
    /\ tpc = [t \in DOMAIN Programs |-> 1]
    /\ holder = [m \in Mutexes |-> None]

\* Mutex::lock().await returns the guard once the mutex is free
Acquire(t) ==
    /\ At(t).op = "lock"
    /\ holder[At(t).on] = None
    /\ holder' = [holder EXCEPT ![At(t).on] = t]
    /\ tpc' = [tpc EXCEPT ![t] = @ + 1]
    /\ UNCHANGED notLock

\* the guard goes out of scope or is dropped
Release(t) ==
    /\ At(t).op = "unlock"
    /\ holder' = [holder EXCEPT ![At(t).on] = None]
    /\ tpc' = [tpc EXCEPT ![t] = @ + 1]
    /\ UNCHANGED notLock

\* the send or receive the task is suspended on completes
IoDone(t) ==
    /\ At(t).op = "io"
    /\ tpc' = [tpc EXCEPT ![t] = @ + 1]
    /\ UNCHANGED holder
    /\ UNCHANGED notLock

(***************************************************************************)
(* Part III -- the session controller of one device and its background     *)
(* tasks (sync/mod.rs, sync/transport.rs, sync/webrtc.rs); the peer and    *)
(* the network are the environment                                         *)
(***************************************************************************)

\* Bound of the controller model.
MaxSessions == 1    \* create_session / join_session calls that pass the precondition

\* the sessions a run can start: those of the bound, and one more that
\* SpecAgain lets create_session start after them
Gens == 1 .. (MaxSessions + 1)

\* Option<TransportHandle>: which task's channel the handle feeds
NoHandle == [path |-> "none", gen |-> 0]
Handle(path, g) == [path |-> path, gen |-> g]

\* SyncDocument::new(): gen names the session whose tasks share the Arc
FreshDoc == [gen |-> 0, dirty |-> FALSE]
SessionDoc(g) == [gen |-> g, dirty |-> FALSE]

\* history record of a step: the command that took it ("task" for a step of
\* a background task), the events it emitted, the SyncError (or transport
\* error) a command returned, the number of updates it put on the
\* transport handle's channel, and the values its tracing records carry
Did(op, events) == [op |-> op, events |-> events, err |-> None, queued |-> 0, logged |-> {}]
Ret(op, err) == [op |-> op, events |-> {}, err |-> err, queued |-> 0, logged |-> {}]
Queued(op) == [op |-> op, events |-> {}, err |-> None, queued |-> 1, logged |-> {}]

\* tracing::info!(.., args): the step's record with the interpolated values
Traced(rec, args) == [rec EXCEPT !.logged = args]

\* the pairing codes a user passes to join_session
JoinCodes == {"", "  ", "7-violet-castle"}

\* a seeded fault: the code is tested as typed
trimNothing(code) == code

\* str::trim
trim(code) == IF code = "  " THEN "" ELSE code

CtlInit ==
    /\ status = "Disconnected"
    /\ session_id = 0
    /\ pairing_code = None
    /\ peer = None
    /\ transport = NoHandle
    /\ discovery = FALSE
    /\ doc = FreshDoc
    /\ sessions = 0
    /\ cmd = [g \in Gens |-> "none"]
    /\ lan = [g \in Gens |-> "none"]
    /\ rtc = [g \in Gens |-> "none"]
    /\ jn = [g \in Gens |-> "none"]
    /\ jloop = [g \in Gens |-> "none"]
    /\ won = [g \in Gens |-> "none"]
    /\ last = Did("init", {})

\* session g was created and is no longer the session in the state
Ended(g) == g <= sessions /\ session_id # g

\* history: the first path of generation g that made the state Connected
MarkWon(g, path) == won' = [won EXCEPT ![g] = IF @ = "none" THEN path ELSE @]

\* a seeded fault: the status is left as it was
reset_session_keeps_status ==
    /\ session_id' = 0
    /\ pairing_code' = None
    /\ peer' = None
    /\ transport' = NoHandle
    /\ discovery' = FALSE
    /\ doc' = FreshDoc
    /\ status' = status

\* SyncState::reset_session
reset_session ==
    /\ session_id' = 0
    /\ pairing_code' = None
    /\ peer' = None
    /\ transport' = NoHandle
    /\ discovery' = FALSE
    /\ doc' = FreshDoc
    /\ status' = "Disconnected"

\* the lines after run_sync_loop in every task: "Clean up state on disconnect"
Cleanup ==
    IF status # "Disconnected"
    THEN /\ reset_session
         /\ last' = Did("task", {"sync-status-changed"})
    ELSE /\ UNCHANGED <<status, session_id, pairing_code, peer, transport, discovery, doc>>
         /\ last' = Did("task", {})

\* create_sync_session up to drop(s) and the emit
CreateSession ==
    /\ IF status # "Disconnected"
       THEN /\ last' = Ret("create_session", "AlreadyInSession")
            /\ UNCHANGED <<status, session_id, pairing_code, doc, sessions, cmd>>
       ELSE /\ sessions < MaxSessions
            /\ LET g == sessions + 1
               IN /\ sessions' = g
                  /\ session_id' = g
                  /\ pairing_code' = "code"
                  /\ status' = "WaitingForPeer"
                  /\ doc' = SessionDoc(g)
                  /\ cmd' = [cmd EXCEPT ![g] = "started"]
                  /\ last' = Did("create_session", {"sync-status-changed"})
    /\ UNCHANGED <<peer, transport, discovery, lan, rtc, jn, jloop, won>>
    /\ UNCHANGED notCtl

\* create_sync_session, with one session beyond the bound
CreateAgain ==
    /\ IF status # "Disconnected"
       THEN /\ last' = Ret("create_session", "AlreadyInSession")
            /\ UNCHANGED <<status, session_id, pairing_code, doc, sessions, cmd>>
       ELSE /\ sessions < MaxSessions + 1
            /\ LET g == sessions + 1
               IN /\ sessions' = g
                  /\ session_id' = g
                  /\ pairing_code' = "code"
                  /\ status' = "WaitingForPeer"
                  /\ doc' = SessionDoc(g)
                  /\ cmd' = [cmd EXCEPT ![g] = "started"]
                  /\ last' = Did("create_session", {"sync-status-changed"})
    /\ UNCHANGED <<peer, transport, discovery, lan, rtc, jn, jloop, won>>
    /\ UNCHANGED notCtl

\* create_sync_session from the emit's `?` to the return: start_creator_transport,
\* mDNS announce, "Store transport handle and discovery", spawn of the
\* WebRTC fallback task
CreateFinish(g, outcome) ==
    /\ cmd[g] = "started"
    /\ IF outcome = "ok"
       THEN /\ transport' = Handle("lan", g)
            /\ discovery' = TRUE
            /\ lan' = [lan EXCEPT ![g] = "accept"]
            /\ rtc' = [rtc EXCEPT ![g] = "negotiate"]
            /\ cmd' = [cmd EXCEPT ![g] = "none"]
       ELSE \* Err returned by `?`; after a bind the listener task already runs
            /\ lan' = [lan EXCEPT ![g] = IF outcome = "mdns_err" THEN "accept" ELSE @]
            /\ cmd' = [cmd EXCEPT ![g] = "none"]
            /\ UNCHANGED <<transport, discovery, rtc>>
    /\ last' = IF outcome = "ok"
               THEN Traced(Did("task", {}), {"session_id", "port"})
               ELSE Did("task", {})
    /\ UNCHANGED <<status, session_id, pairing_code, peer, doc, sessions, jn, jloop, won>>
    /\ UNCHANGED notCtl

\* start_creator_transport, the spawned task: listener.accept(), then
\* handle_creator_connection up to the start of run_sync_loop.
\* accept_err: accept fails; setup_err: an Err of the WebSocket accept, the
\* SPAKE2 exchange or the device-info exchange; init_err: an Err of "Send
\* initial state to joiner"; every Err is logged by the spawned task
LanConnection(g, outcome) ==
    /\ lan[g] = "accept"
    /\ IF outcome \in {"ok", "init_err"}
       THEN /\ status' = "Connected"
            /\ peer' = "lan_peer"
            /\ MarkWon(g, "lan")
            /\ last' = Did("task", {"sync-status-changed"})
       ELSE /\ last' = Did("task", {})
            /\ UNCHANGED <<status, peer, won>>
    /\ lan' = [lan EXCEPT ![g] = IF outcome = "ok" THEN "loop" ELSE "none"]
    /\ UNCHANGED <<session_id, pairing_code, transport, discovery, doc, sessions,
                   cmd, rtc, jn, jloop>>
    /\ UNCHANGED notCtl

\* handle_creator_connection: run_sync_loop returns, then the cleanup
LanLoopEnd(g) ==
    /\ lan[g] = "loop"
    /\ lan' = [lan EXCEPT ![g] = "none"]
    /\ Cleanup
    /\ UNCHANGED <<sessions, cmd, rtc, jn, jloop, won>>
    /\ UNCHANGED notCtl

\* the WebRTC fallback task of create_sync_session: establish_webrtc_transport
\* returns, then the should_use test
RtcEstablished(g, ok) ==
    /\ rtc[g] = "negotiate"
    /\ rtc' = [rtc EXCEPT ![g] = IF ok /\ status = "WaitingForPeer" THEN "device_info" ELSE "none"]
    /\ last' = Did("task", {})
    /\ UNCHANGED <<status, session_id, pairing_code, peer, transport, discovery, doc, sessions,
                   cmd, lan, jn, jloop, won>>
    /\ UNCHANGED notCtl

\* the WebRTC fallback task: device-info exchange, initial state, "Update state"
RtcDeviceInfo(g, ok) ==
    /\ rtc[g] = "device_info"
    /\ IF ok
       THEN /\ status' = "Connected"
            /\ peer' = "rtc_peer"
            /\ transport' = Handle("rtc", g)
            /\ rtc' = [rtc EXCEPT ![g] = "loop"]
            /\ MarkWon(g, "rtc")
            /\ last' = Did("task", {"sync-status-changed"})
       ELSE \* tracing::error! and return
            /\ rtc' = [rtc EXCEPT ![g] = "none"]
            /\ last' = Did("task", {})
            /\ UNCHANGED <<status, peer, transport, won>>
    /\ UNCHANGED <<session_id, pairing_code, discovery, doc, sessions, cmd, lan, jn, jloop>>
    /\ UNCHANGED notCtl

\* the WebRTC fallback task: run_sync_loop returns, then "Clean up"
RtcLoopEnd(g) ==
    /\ rtc[g] = "loop"
    /\ rtc' = [rtc EXCEPT ![g] = "none"]
    /\ Cleanup
    /\ UNCHANGED <<sessions, cmd, lan, jn, jloop, won>>
    /\ UNCHANGED notCtl

\* join_sync_session up to the spawn
JoinSession(code) ==
    /\ IF status # "Disconnected"
       THEN /\ last' = Ret("join_session", "AlreadyInSession")
            /\ UNCHANGED <<status, session_id, doc, sessions, jn>>
       ELSE IF trim(code) = ""
       THEN /\ last' = Ret("join_session", "InvalidPairingCode")
            /\ UNCHANGED <<status, session_id, doc, sessions, jn>>
       ELSE /\ sessions < MaxSessions
            /\ LET g == sessions + 1
               IN /\ sessions' = g
                  /\ session_id' = g
                  /\ status' = "Connecting"
                  /\ doc' = SessionDoc(g)
                  /\ jn' = [jn EXCEPT ![g] = "browse"]
                  /\ last' = Traced(Did("join_session", {"sync-status-changed"}), {code})
    /\ UNCHANGED <<pairing_code, peer, transport, discovery, cmd, lan, rtc, jloop, won>>
    /\ UNCHANGED notCtl

\* try_local_discovery: the browse loop ends with a resolved service that is
\* then contacted ("found": the peer answers; "found_silent": the peer
\* accepts the connection and never sends), or with the 5 s timeout
JoinBrowse(g, outcome) ==
    /\ jn[g] = "browse"
    /\ jn' = [jn EXCEPT ![g] = CASE outcome = "found" -> "lan_handshake"
                                 [] outcome = "found_silent" -> "lan_wait"
                                 [] OTHER -> "rtc"]
    /\ last' = Did("task", IF outcome = "timeout" THEN {"sync-status-changed"} ELSE {})
    /\ UNCHANGED <<status, session_id, pairing_code, peer, transport, discovery, doc, sessions,
                   cmd, lan, rtc, jloop, won>>
    /\ UNCHANGED notCtl

\* start_joiner_transport with a peer that answers: SPAKE2, device info,
\* "Update state to Connected", spawn of the sync loop; on Err
\* try_local_discovery goes on browsing until the deadline
JoinLanHandshake(g, ok) ==
    /\ jn[g] = "lan_handshake"
    /\ IF ok
       THEN /\ status' = "Connected"
            /\ peer' = "lan_peer"
            /\ jn' = [jn EXCEPT ![g] = "store"]
            /\ jloop' = [jloop EXCEPT ![g] = "loop"]
            /\ last' = Did("task", {"sync-status-changed"})
       ELSE /\ jn' = [jn EXCEPT ![g] = "rtc"]
            /\ last' = Did("task", {"sync-status-changed"})
            /\ UNCHANGED <<status, peer, jloop>>
    /\ UNCHANGED <<session_id, pairing_code, transport, discovery, doc, sessions,
                   cmd, lan, rtc, won>>
    /\ UNCHANGED notCtl

\* discover_and_connect, phase 2: establish_webrtc_transport and the device
\* info exchange ("ok"), an Err of either ("fail", handled by the Err arm of
\* the task spawned in join_sync_session), or a relay room in which no
\* creator ever sends ("silent")
JoinRtc(g, outcome) ==
    /\ jn[g] = "rtc"
    /\ CASE outcome = "ok" ->
              /\ status' = "Connected"
              /\ peer' = "rtc_peer"
              /\ jn' = [jn EXCEPT ![g] = "store"]
              /\ jloop' = [jloop EXCEPT ![g] = "loop"]
              /\ last' = Did("task", {"sync-status-changed"})
              /\ UNCHANGED <<session_id, pairing_code, transport, discovery, doc>>
         [] outcome = "fail" ->
              /\ reset_session
              /\ jn' = [jn EXCEPT ![g] = "none"]
              /\ last' = Did("task", {"sync-status-changed", "sync-error"})
              /\ UNCHANGED jloop
         [] OTHER ->
              /\ jn' = [jn EXCEPT ![g] = "rtc_wait"]
              /\ last' = Did("task", {})
              /\ UNCHANGED <<status, session_id, pairing_code, peer, transport, discovery, doc,
                             jloop>>
    /\ UNCHANGED <<sessions, cmd, lan, rtc, won>>
    /\ UNCHANGED notCtl

\* join_sync_session, the spawned task: Ok(handle) => s.transport = Some(handle)
JoinStore(g) ==
    /\ jn[g] = "store"
    /\ transport' = Handle("join", g)
    /\ jn' = [jn EXCEPT ![g] = "none"]
    /\ last' = Did("task", {})
    /\ UNCHANGED <<status, session_id, pairing_code, peer, discovery, doc, sessions,
                   cmd, lan, rtc, jloop, won>>
    /\ UNCHANGED notCtl

\* the joiner's sync loop task: run_sync_loop returns, then the cleanup
JoinLoopEnd(g) ==
    /\ jloop[g] = "loop"
    /\ jloop' = [jloop EXCEPT ![g] = "none"]
    /\ Cleanup
    /\ UNCHANGED <<sessions, cmd, lan, rtc, jn, won>>
    /\ UNCHANGED notCtl

\* a seeded fault: no early return when already Disconnected
LeaveSessionNoEarlyReturn ==
    /\ reset_session
    /\ last' = Traced(Did("leave_session", {"sync-status-changed"}), {"session_id"})
    /\ UNCHANGED <<sessions, cmd, lan, rtc, jn, jloop, won>>
    /\ UNCHANGED notCtl

\* leave_sync_session
LeaveSession ==
    /\ IF status = "Disconnected"
       THEN /\ last' = Did("leave_session", {})
            /\ UNCHANGED <<status, session_id, pairing_code, peer, transport, discovery, doc>>
       ELSE /\ reset_session
            /\ last' = Traced(Did("leave_session", {"sync-status-changed"}), {"session_id"})
    /\ UNCHANGED <<sessions, cmd, lan, rtc, jn, jloop, won>>
    /\ UNCHANGED notCtl

\* TransportHandle::send_update succeeds while the task that owns update_rx
\* lives: the listener task and its sync loop ("lan"), the sync loop of the
\* creator's WebRTC task ("rtc"), the joiner's sync loop task ("join")
ChannelOpen(h) ==
    CASE h.path = "lan" -> lan[h.gen] \in {"accept", "loop"}
      [] h.path = "rtc" -> rtc[h.gen] = "loop"
      [] h.path = "join" -> jloop[h.gen] = "loop"
      [] OTHER -> FALSE

\* sync_update_transcript / sync_update_agent_result
UpdateTranscript ==
    /\ IF status # "Connected" \/ transport = NoHandle
       THEN /\ last' = Ret("update_transcript", "NotConnected")
            /\ UNCHANGED doc
       ELSE /\ doc' = [doc EXCEPT !.dirty = TRUE]
            /\ last' = IF ChannelOpen(transport)
                       THEN Queued("update_transcript")
                       ELSE Ret("update_transcript", "Transport channel closed")
    /\ UNCHANGED <<status, session_id, pairing_code, peer, transport, discovery, sessions,
                   cmd, lan, rtc, jn, jloop, won>>
    /\ UNCHANGED notCtl

\* the steps of the background tasks
TaskStep ==
    \/ \E g \in Gens, o \in {"ok", "emit_err", "bind_err", "mdns_err"} : CreateFinish(g, o)
    \/ \E g \in Gens, o \in {"ok", "accept_err", "setup_err", "init_err"} : LanConnection(g, o)
    \/ \E g \in Gens : LanLoopEnd(g)
    \/ \E g \in Gens, ok \in BOOLEAN : RtcEstablished(g, ok)
    \/ \E g \in Gens, ok \in BOOLEAN : RtcDeviceInfo(g, ok)
    \/ \E g \in Gens : RtcLoopEnd(g)
    \/ \E g \in Gens, o \in {"found", "found_silent", "timeout"} : JoinBrowse(g, o)
    \/ \E g \in Gens, ok \in BOOLEAN : JoinLanHandshake(g, ok)
    \/ \E g \in Gens, o \in {"ok", "fail", "silent"} : JoinRtc(g, o)
    \/ \E g \in Gens : JoinStore(g)
    \/ \E g \in Gens : JoinLoopEnd(g)

(***************************************************************************)
(* Specifications                                                          *)
(***************************************************************************)

RelayIdle ==
    /\ rooms = <<>> /\ sockOpen = {} /\ client_room = <<>> /\ client_id = <<>>
    /\ outbox = <<>> /\ received = <<>> /\ nEvents = 0 /\ relayLast = None

SigIdle ==
    /\ conn = None /\ sendq = None /\ wsUp = None /\ taken = None /\ inbound = None
    /\ got = None /\ sentLog = None /\ joinSeq = <<>>

DocIdle == updates = {} /\ applied = None

TimerIdle == loop = None /\ loopLast = None

LockIdle == tpc = None /\ holder = None

RtcIdle ==
    /\ nego = None /\ inbox = None /\ outlog = None /\ ice_rx = None /\ gathering = None
    /\ gatheredIce = None /\ remoteDesc = None /\ remoteIce = None /\ rtcCipher = None
    /\ peerSent = None

LinkIdle ==
    /\ lcode = None /\ clientNum = None /\ hs = None /\ wire = None /\ cipher = None
    /\ lstatus = None /\ lpeer = None /\ lhandle = None /\ ldoc = None /\ outq = None
    /\ key_rotation_epoch = None /\ sealed = {} /\ undecryptable = None /\ opened = None
    /\ emitted = None /\ swallowed = None /\ hasLeft = None /\ saidGoodbye = None
    /\ snapshotSent = None
    /\ nWrites = 0 /\ nTicks = 0 /\ nInjected = 0

RelayNext ==
    \/ \E s \in Sockets, room \in RoomIds, from \in ClientIds : RelayJoin(s, room, from)
    \/ \E s \in Sockets, room \in RoomIds, from \in ClientIds, p \in Payloads :
          RelayRelay(s, room, from, p)
    \/ \E s \in Sockets : RelayDeliver(s)
    \/ \E s \in Sockets : RelayClose(s)

SigNext ==
    \/ \E c \in Clients, code \in Codes : Connect(c, code)
    \/ \E c \in Clients, p \in Payloads : Send(c, p)
    \/ \E c \in Clients : BridgeOut(c)
    \/ \E c \in Clients : BridgeIn(c)
    \/ \E c \in Clients : Recv(c)
    \/ \E c \in Clients : Close(c)
    \/ \E c \in Clients : ServerRecv(c)
    \/ \E c \in Clients : ServerSend(c)

InitSignal == RelayInit /\ SigInit /\ LinkIdle /\ DocIdle /\ TimerIdle /\ RtcIdle /\ LockIdle /\ CtlInit

SpecSignal == InitSignal /\ [][SigNext]_vars

InitRelay == RelayInit /\ SigIdle /\ LinkIdle /\ DocIdle /\ TimerIdle /\ RtcIdle /\ LockIdle /\ CtlInit

SpecRelay == InitRelay /\ [][RelayNext]_vars

LinkNext ==
    \/ CreatorSendSpake
    \/ CreatorRecvSpake
    \/ CreatorRecvInfo
    \/ CreatorSendInit
    \/ JoinerRecvSpake
    \/ JoinerRecvInfo
    \/ JoinerStoreHandle
    \/ JoinerGiveUp
    \/ \E p \in Peers, k \in Keys, v \in Vals : UpdateDoc(p, k, v)
    \/ \E p \in Peers : LoopRecv(p)
    \/ \E p \in Peers : LoopSend(p)
    \/ \E p \in Peers, path \in TickPaths : LoopTick(p, path)
    \/ \E p \in Peers : LoopClosed(p)
    \/ \E p \in Peers : HandshakeClosed(p)

InitLink == LinkInit /\ RelayIdle /\ SigIdle /\ DocIdle /\ TimerIdle /\ RtcIdle /\ LockIdle /\ CtlInit

SpecLink == InitLink /\ [][LinkNext]_vars

\* the link with the rotation timers of both devices free to fire at any
\* time, and no other timer
RotateNext ==
    \/ CreatorSendSpake
    \/ CreatorRecvSpake
    \/ CreatorRecvInfo
    \/ CreatorSendInit
    \/ JoinerRecvSpake
    \/ JoinerRecvInfo
    \/ JoinerStoreHandle
    \/ JoinerGiveUp
    \/ \E p \in Peers : LoopRecv(p)
    \/ \E p \in Peers, path \in TickPaths : RotationTimer(p, path)

SpecRotate == InitLink /\ [][RotateNext]_vars

\* the link with a third party on it, from the handshake on; the heartbeat
\* timer does not fire within the run (SpecLink and SpecTimer have it)
HostileNext ==
    \/ CreatorSendSpake
    \/ CreatorRecvSpake
    \/ CreatorRecvInfo
    \/ CreatorSendInit
    \/ JoinerRecvSpake
    \/ JoinerRecvInfo
    \/ JoinerStoreHandle
    \/ JoinerGiveUp
    \/ \E p \in Peers, k \in Keys, v \in Vals : UpdateDoc(p, k, v)
    \/ \E p \in Peers : LoopRecv(p)
    \/ \E p \in Peers : LoopSend(p)
    \/ \E p \in Peers : HandshakeClosed(p)
    \/ \E p \in Peers : Inject(p)

SpecHostile == InitLink /\ [][HostileNext]_vars

\* the link over a transport that loses nothing, with both users free to
\* leave once Connected; of the heartbeat timer's ticks only the last one,
\* at the session limit, is followed, and what the updates carry is of no
\* account. A loop never finds the connection closed here: a peer's loop
\* that ends has sent Goodbye or has read one.
LeaveNext ==
    \/ CreatorSendSpake
    \/ CreatorRecvSpake
    \/ CreatorRecvInfo
    \/ CreatorSendInit
    \/ JoinerRecvSpake
    \/ JoinerRecvInfo
    \/ JoinerStoreHandle
    \/ JoinerGiveUp
    \/ \E p \in Peers : UpdateDoc(p, "transcript", "v1")
    \/ \E p \in Peers : LinkLeave(p)
    \/ \E p \in Peers : LoopRecv(p)
    \/ \E p \in Peers : LoopSend(p)
    \/ \E p \in Peers : LoopQueueClosed(p)
    \/ \E p \in Peers : SessionLimit(p)
    \/ \E p \in Peers : HandshakeClosed(p)

SpecLeave == InitLink /\ [][LeaveNext]_vars

\* every task is scheduled (tokio), a select branch that stays ready is
\* taken, and a loop that is not ended otherwise reaches its session limit
FairLeave ==
    /\ SpecLeave
    /\ WF_vars(CreatorSendSpake) /\ WF_vars(CreatorRecvSpake) /\ WF_vars(CreatorRecvInfo)
    /\ WF_vars(CreatorSendInit) /\ WF_vars(JoinerRecvSpake) /\ WF_vars(JoinerRecvInfo)
    /\ WF_vars(JoinerStoreHandle) /\ WF_vars(JoinerGiveUp)
    /\ \A p \in Peers :
          /\ WF_vars(LoopRecv(p)) /\ WF_vars(LoopSend(p)) /\ WF_vars(LoopQueueClosed(p))
          /\ WF_vars(SessionLimit(p)) /\ WF_vars(HandshakeClosed(p))

TimerNext ==
    \/ TimePasses
    \/ \E kind \in {"frame", "goodbye"} : TimedInbound(kind)
    \/ \E hbSent, krSent \in BOOLEAN : TimedTick(hbSent, krSent)

InitTimer ==
    TimerInit /\ RelayIdle /\ SigIdle /\ LinkIdle /\ DocIdle /\ RtcIdle /\ LockIdle /\ CtlInit

SpecTimer == InitTimer /\ [][TimerNext]_vars

RtcNext ==
    \/ RtcCreateChannel
    \/ RtcSendOffer
    \/ OnCandidate
    \/ OnGatheringComplete
    \/ RtcDrain
    \/ RtcIceDone
    \/ RtcRecvAnswer
    \/ RtcRecvIce
    \/ \E kind \in {"answer", "ice", "ice_done"} : PeerSend(kind)

InitRtc ==
    RtcInit /\ RelayIdle /\ SigIdle /\ LinkIdle /\ DocIdle /\ TimerIdle /\ LockIdle /\ CtlInit

SpecRtc == InitRtc /\ [][RtcNext]_vars

LockNext ==
    \/ \E t \in DOMAIN Programs : Acquire(t)
    \/ \E t \in DOMAIN Programs : Release(t)
    \/ \E t \in DOMAIN Programs : IoDone(t)

InitLocks ==
    LockInit /\ RelayIdle /\ SigIdle /\ LinkIdle /\ DocIdle /\ TimerIdle /\ RtcIdle /\ CtlInit

SpecLocks == InitLocks /\ [][LockNext]_vars

DocNext ==
    \/ \E p \in Peers, k \in Keys, v \in Vals : DocWrite(p, k, v)
    \/ \E p \in Peers : DocEncode(p)
    \/ \E p \in Peers : DocApply(p)

InitDoc == DocInit /\ RelayIdle /\ SigIdle /\ TimerIdle /\ RtcIdle /\ LockIdle /\ CtlInit

SpecDoc == InitDoc /\ [][DocNext]_vars

Next ==
    \/ CreateSession
    \/ \E code \in JoinCodes : JoinSession(code)
    \/ LeaveSession
    \/ UpdateTranscript
    \/ TaskStep

Init ==
    CtlInit /\ RelayIdle /\ SigIdle /\ LinkIdle /\ DocIdle /\ TimerIdle /\ RtcIdle /\ LockIdle

Spec == Init /\ [][Next]_vars

\* the controller with one more create_session than Spec allows, so that a
\* session can be started while tasks of an earlier one still run
AgainNext ==
    \/ CreateAgain
    \/ \E code \in JoinCodes : JoinSession(code)
    \/ LeaveSession
    \/ UpdateTranscript
    \/ TaskStep

SpecAgain == Init /\ [][AgainNext]_vars

\* every spawned task and every pending command is scheduled (tokio), and a
\* peer that is not silent answers
FairSpec == Spec /\ WF_vars(TaskStep)

----------------------------------------------------------------------------
\* C1: for every key epoch and every counter value at most one plaintext is
\* ever sealed under that epoch's key with that counter, over the encrypt
\* calls of both peers from the device-info exchange onward.
C1_NonceNeverReused ==
    \A a, b \in sealed : (a.key = b.key /\ a.counter = b.counter) => a.pt = b.pt

\* C2: in a Connected session over FIFO links no Update envelope that a sync
\* loop receives is dropped with a decrypt failure, whatever the interleaving
\* of ticks, rotations, outbound updates and inbound frames.
C2_NoUpdateDropped == \A p \in Peers : undecryptable[p] = 0

\* C3: the status changes only along Disconnected->WaitingForPeer (by
\* create_session), Disconnected->Connecting (by join_session),
\* WaitingForPeer->Connected, Connecting->Connected and any->Disconnected,
\* for every interleaving of the commands with the background tasks.
C3_StatusEdges ==
    [][ status' # status =>
          \/ status = "Disconnected" /\ status' = "WaitingForPeer" /\ last'.op = "create_session"
          \/ status = "Disconnected" /\ status' = "Connecting" /\ last'.op = "join_session"
          \/ status = "WaitingForPeer" /\ status' = "Connected"
          \/ status = "Connecting" /\ status' = "Connected"
          \/ status' = "Disconnected" ]_vars

\* a step in which a setup step of a task of session g fails for good: the
\* creator's LAN task between accept and the sync loop, the creator's WebRTC
\* task in the device-info exchange, the joiner's task on its last path
SetupFails(g) ==
    \/ lan[g] = "accept" /\ lan'[g] = "none"
    \/ rtc[g] = "device_info" /\ rtc'[g] = "none"
    \/ jn[g] = "rtc" /\ jn'[g] = "none"

\* C4: for either role and either transport, a failing setup step aborts the
\* session: the status is Disconnected afterwards and sync-error is emitted.
C4_SetupFailureAborts ==
    [][ \A g \in Gens :
          SetupFails(g) => (status' = "Disconnected" /\ "sync-error" \in last'.events) ]_vars

\* C5: after join_session the status eventually leaves Connecting, in every
\* execution, also with no creator in the relay room or a contacted peer
\* that never sends its PAKE message.
C5_JoinLeavesConnecting == [](status = "Connecting" => <>(status # "Connecting"))

\* C6: right after leave_session returns the status is Disconnected,
\* session_id, pairing_code, peer, transport and discovery are absent and
\* the document is a fresh empty one.
C6_LeaveWipesState ==
    last.op = "leave_session" =>
        /\ status = "Disconnected"
        /\ session_id = 0
        /\ pairing_code = None
        /\ peer = None
        /\ transport = NoHandle
        /\ ~discovery
        /\ doc = FreshDoc

\* C7: a device is Connected only after it took in an envelope of the peer
\* sealed under its own PAKE-derived key; with different pairing codes on the
\* two devices neither one is ever Connected.
C7_ConnectedOnlyAfterDecrypt ==
    \A p \in Peers :
        /\ lstatus[p] = "Connected" => opened[p]
        /\ lcode["creator"] # lcode["joiner"] => lstatus[p] # "Connected"

\* both PAKE exchanges completed under different codes and both handshake
\* tasks have ended on the failed decrypt, nobody Connected
C7_Witness ==
    /\ lcode["creator"] # lcode["joiner"]
    /\ \A p \in Peers : cipher[p] # NoCipher /\ hs[p] = "failed" /\ lstatus[p] # "Connected"
    /\ cipher["creator"].secret # cipher["joiner"].secret

\* both sync loops run, nothing is queued and nothing is in flight
Quiescent ==
    \A p \in Peers : hs[p] = "loop" /\ lstatus[p] = "Connected" /\ wire[p] = <<>> /\ outq[p] = <<>>

\* C8: in a Connected session, once every sent frame has been delivered and
\* processed and no update is queued, both documents yield the same snapshot,
\* also when a key rotation happened while updates were in flight.
C8_SnapshotsConverge ==
    Quiescent => snapshot(ldoc["creator"]) = snapshot(ldoc["joiner"])

\* a step of one of the creator's two paths of session g
PathSteps(g, path) ==
    IF path = "lan" THEN lan[g] # "none" /\ lan'[g] # lan[g]
    ELSE rtc[g] # "none" /\ rtc'[g] # rtc[g]

\* C9: on the creator at most one of the LAN path and the relay/WebRTC path
\* runs a sync loop, and once one path has made the session Connected, or
\* the session has been left, the other path never changes status, peer or
\* transport handle.
C9_PathsExclusive ==
    /\ [](\A g \in Gens : ~(lan[g] = "loop" /\ rtc[g] = "loop"))
    /\ [][ \A g \in Gens : \A path \in {"lan", "rtc"} :
             (PathSteps(g, path) /\ (won[g] \notin {"none", path} \/ Ended(g)))
                => (status' = status /\ peer' = peer /\ transport' = transport) ]_vars

\* C10: in every reachable state of the relay each room has at most 2
\* members; a join to a room that already has 2 members adds no member,
\* queues peer_joined for no one and queues nothing for the rejected client.
C10_RelayCapacity ==
    /\ [](\A r \in DOMAIN rooms : Cardinality(DOMAIN rooms[r]) <= 2)
    /\ [][ (relayLast'.op = "join" /\ Cardinality(Members(rooms, relayLast'.room)) >= 2
            /\ nEvents' = nEvents + 1)
           => (rooms' = rooms /\ outbox' = outbox /\ received' = received) ]_vars

\* a third join has just been dropped on a room holding two members
C10_Witness ==
    /\ relayLast.op = "join" /\ relayLast.full
    /\ Cardinality(Members(rooms, relayLast.room)) = 2
    /\ relayLast.from \notin Members(rooms, relayLast.room)

\* the sockets registered in a room
Registered(rs, room) == {rs[room][m] : m \in Members(rs, room)}

\* C11: a relay frame naming room X is enqueued only to clients that are
\* registered members of room X at that moment, for any sequence of joins,
\* relays and closes; a client that never joined a room is sent nothing.
C11_RelayIsolation ==
    /\ [][ \A s \in Sockets :
             \A i \in (Len(outbox[s]) + 1) .. Len(outbox'[s]) :
                outbox'[s][i].type = "relay"
                    => s \in Registered(rooms, outbox'[s][i].room) ]_vars
    /\ [](\A s \in Sockets : client_room[s] = None
                                => (outbox[s] = <<>> /\ received[s] = <<>>))

\* a frame relayed in room X has reached a member of X while another client,
\* registered only in room Y, holds no frame of room X
C11_Witness ==
    \E s, t \in Sockets :
        /\ \E i \in 1 .. Len(received[s]) :
              received[s][i].type = "relay" /\ received[s][i].room = "X"
        /\ s \in Registered(rooms, "X")
        /\ t \in Registered(rooms, "Y") /\ t \notin Registered(rooms, "X")
        /\ \A i \in 1 .. Len(received[t]) : received[t][i].room # "X"
        /\ \A i \in 1 .. Len(outbox[t]) : outbox[t][i].room # "X"

\* C12: after a client's socket closes the relay holds no membership entry
\* whose outbox belongs to that socket, every remaining member of each room
\* it was in has been sent peer_left naming the leaver, and no room with zero
\* members remains, whatever frames (more than one join included) the client
\* sent before closing.
C12_CloseRemovesClient ==
    /\ [](\A s \in Sockets : ~sockOpen[s] => \A r \in DOMAIN rooms : s \notin Registered(rooms, r))
    /\ [](\A r \in DOMAIN rooms : Members(rooms, r) # {})
    /\ [][ \A s \in Sockets : (sockOpen[s] /\ ~sockOpen'[s]) =>
             \A r \in DOMAIN rooms : \A m \in Members(rooms, r) :
                rooms[r][m] = s =>
                   \A t \in Registered(rooms, r) \ {s} :
                      sockOpen[t] =>
                         /\ Len(outbox'[t]) = Len(outbox[t]) + 1
                         /\ outbox'[t][Len(outbox'[t])] = PeerLeft(r, m) ]_vars

\* the sender of a relay frame is registered in the room under the id the
\* frame names, and under no other
SenderIs(s, room, from) ==
    /\ from \in Members(rooms, room)
    /\ \A m \in Members(rooms, room) : rooms[room][m] = s <=> m = from

Peer(c) == IF c = "s1" THEN "s2" ELSE "s1"

\* the place of x in a sequence that holds it once
Pos(seq, x) == CHOOSE i \in 1 .. Len(seq) : seq[i] = x

\* C14: for any two payloads one client sends in some order, every other
\* member that receives both receives them in that order, end to end through
\* the sender's outbound queue, the relay and the receiver's inbound queue;
\* peer_joined for a newcomer is received before any payload it relays.
C14_FifoEndToEnd ==
    \A r \in Clients :
        /\ \A i, j \in 1 .. Len(got[r]) :
              (i < j /\ got[r][i].kind = "payload" /\ got[r][j].kind = "payload") =>
                  /\ \E k \in 1 .. Len(sentLog[Peer(r)]) : sentLog[Peer(r)][k] = got[r][i].val
                  /\ \E k \in 1 .. Len(sentLog[Peer(r)]) : sentLog[Peer(r)][k] = got[r][j].val
                  /\ Pos(sentLog[Peer(r)], got[r][i].val) < Pos(sentLog[Peer(r)], got[r][j].val)
        /\ \A i, j \in 1 .. Len(got[r]) :
              (got[r][i].kind = "payload" /\ got[r][j].kind = "peer_joined"
               /\ got[r][j].val = DeviceId(Peer(r))) => j < i

\* a client was told of the newcomer and then received both of its payloads
C14_Witness ==
    \E r \in Clients :
        /\ Len(got[r]) = 3 /\ Len(sentLog[Peer(r)]) = 2
        /\ got[r][1] = [kind |-> "peer_joined", val |-> DeviceId(Peer(r))]
        /\ got[r][2] = [kind |-> "payload", val |-> sentLog[Peer(r)][1]]
        /\ got[r][3] = [kind |-> "payload", val |-> sentLog[Peer(r)][2]]

\* C15: when a client joins a room that has one existing member, the existing
\* member is sent exactly one peer_joined naming the newcomer and the
\* newcomer is sent none; so a client blocked in wait_for_peer is released
\* only if the relay registered it in the room before the client that joined.
C15_PeerJoinedToExistingOnly ==
    /\ [][ \A s \in Sockets, room \in RoomIds, from \in ClientIds :
             (/\ joinSeq' # joinSeq
              /\ Cardinality(Members(rooms, room)) = 1
              /\ s \notin Registered(rooms, room)
              /\ HandleJoin(s, room, from)) =>
                /\ outbox'[s] = outbox[s]
                /\ \A t \in Registered(rooms, room) :
                      sockOpen[t] => outbox'[t] = Append(outbox[t], PeerJoined(room, from)) ]_vars
    /\ [](\A c \in Clients : Released(c) =>
             /\ \E i, j \in 1 .. Len(joinSeq) : i < j /\ joinSeq[i] = c /\ joinSeq[j] = Peer(c)
             /\ \A i \in 1 .. Len(got[c]) :
                   got[c][i].kind = "peer_joined" => got[c][i].val = DeviceId(Peer(c)))

\* the client that joined first was released from wait_for_peer, and the
\* one that joined second has been told of nobody
C15_Witness ==
    \E c \in Clients :
        /\ Released(c)
        /\ joinSeq = <<c, Peer(c)>>
        /\ ~Released(Peer(c))
        /\ \A i \in 1 .. Len(received[Peer(c)]) : received[Peer(c)][i].type # "peer_joined"
        /\ outbox[Peer(c)] = <<>> /\ taken[Peer(c)] = Len(received[Peer(c)])

\* the fields of SyncState, and the positions of every command and task
SyncFields == <<status, session_id, pairing_code, peer, transport, discovery, doc>>
Tasks == <<sessions, cmd, lan, rtc, jn, jloop>>

\* C16: if a join_session background task fails on both the LAN path and the
\* WebRTC path, the state is reset to Disconnected (session_id, peer and
\* transport cleared) and a sync-error event is emitted.
C16_JoinFailureResets ==
    [][ \A g \in Gens : (jn[g] = "rtc" /\ jn'[g] = "none") =>
           /\ status' = "Disconnected"
           /\ session_id' = 0 /\ peer' = None /\ transport' = NoHandle
           /\ "sync-error" \in last'.events ]_vars

\* a join task has just failed on both paths
C16_Witness ==
    /\ "sync-error" \in last.events
    /\ status = "Disconnected" /\ session_id = 0 /\ transport = NoHandle
    /\ \E g \in Gens : g <= sessions /\ jn[g] = "none" /\ jloop[g] = "none"

\* C17: create_session and join_session called while the status is not
\* Disconnected return AlreadyInSession, and join_session called while
\* Disconnected with an empty or whitespace-only code returns
\* InvalidPairingCode; in each case no field of the state changes, no
\* background task is started and no event is emitted.
C17_PreconditionErrors ==
    [][ /\ (last'.op \in {"create_session", "join_session"} /\ status # "Disconnected") =>
              /\ last'.err = "AlreadyInSession"
              /\ last'.events = {}
              /\ UNCHANGED <<SyncFields, Tasks>>
        /\ \A code \in {"", "  "} :
              (status = "Disconnected" /\ JoinSession(code)) =>
                 /\ last'.err = "InvalidPairingCode"
                 /\ last'.events = {}
                 /\ UNCHANGED <<SyncFields, Tasks>> ]_vars

\* join_session was refused for its code, or a command for the session in place
C17_Witness ==
    \/ last = Ret("join_session", "InvalidPairingCode") /\ status = "Disconnected"
    \/ last = Ret("create_session", "AlreadyInSession") /\ status = "Connected"
    \/ last = Ret("join_session", "AlreadyInSession") /\ status = "WaitingForPeer"

C19_LeaveIdempotent ==
    [][ last'.op = "leave_session" =>
           /\ last'.err = None
           /\ status' = "Disconnected"
           /\ status = "Disconnected" =>
                 (last'.events = {} /\ UNCHANGED <<SyncFields, Tasks>>)
           /\ last.op = "leave_session" => UNCHANGED <<SyncFields, Tasks>> ]_vars

\* leave_session was called on a session that had already been left
C19_Witness ==
    /\ last = Did("leave_session", {})
    /\ sessions >= 1
    /\ status = "Disconnected"

\* the writes replica p has made itself
HistoryOf(p) == {i \in ldoc[p] : i.id[1] = clientNum[p]}

C22_CounterSequence ==
    [][\A p \in Peers :
         LET c == cipher[p]
             d == cipher'[p]
             ReturnedBy(x) == \E env \in sealed' :
                                  env.key = KeyOf(x) /\ env.counter = x.seal_counter
         IN /\ \/ d = c
               \/ /\ c # NoCipher
                  /\ d = [c EXCEPT !.seal_counter = @ + 1]
                  /\ ReturnedBy(c)
               \/ /\ c # NoCipher
                  /\ d = [c EXCEPT !.gen = @ + 1, !.seal_counter = 0]
               \/ /\ c = NoCipher
                  /\ d.gen = 0
                  /\ \/ d.seal_counter = 0
                     \/ d.seal_counter = 1 /\ ReturnedBy([d EXCEPT !.seal_counter = 0])
            \* the sync loop takes an Update off the wire: decrypt only
            /\ (/\ hs[p] = "loop" /\ wire[p] # <<>>
                /\ wire'[p] = Tail(wire[p])
                /\ Head(wire[p]).type = "update") => d = c
      ]_vars

\* a loop has rotated its key, sealed an Update under the new key, and its
\* peer has opened an Update in its loop
C22_Witness ==
    \E p \in Peers :
        /\ cipher[p].gen = 1 /\ cipher[p].seal_counter = 1
        /\ \E env \in sealed : env.key = KeyOf(cipher[p]) /\ env.counter = 0
        /\ ldoc[Other(p)] # {} \/ undecryptable[Other(p)] > 0 \/ ldoc[p] # {}

C25_CodeNeverLogged ==
    \A v \in last.logged : v \notin JoinCodes /\ v # pairing_code

\* C26: at each heartbeat tick of the sync loop, if more than 15 s have
\* passed since the last inbound frame the loop emits sync-heartbeat-timeout
\* and exits without handing a Heartbeat or a Goodbye to the socket on that
\* tick; otherwise it hands exactly one Heartbeat to the socket. Hence a
\* running loop is never more than 20 s past its last inbound frame.
C26_HeartbeatTimeout ==
    [][ /\ loopLast'.kind = "tick" =>
              LET fr == loopLast'.frames
                  ev == loopLast'.events
              IN IF loop.now - loop.last_peer_activity > PEER_TIMEOUT
                 THEN /\ ev = <<"sync-heartbeat-timeout", "sync-disconnected">>
                      /\ fr = <<>>
                      /\ ~loop'.running
                 ELSE /\ Cardinality({i \in 1 .. Len(fr) : fr[i].type = "heartbeat"}) = 1
                      /\ \A i \in 1 .. Len(ev) : ev[i] # "sync-heartbeat-timeout"
        /\ loop'.running =>
              loop'.now - loop'.last_peer_activity <= PEER_TIMEOUT + HEARTBEAT_INTERVAL
      ]_vars

\* the peer sent a frame at the instant of a tick and went silent: the loop
\* ran on for 20 s, through a tick at exactly 15 s, and then timed out
C26_Witness ==
    /\ ~loop.running
    /\ loopLast.kind = "tick"
    /\ loopLast.events = <<"sync-heartbeat-timeout", "sync-disconnected">>
    /\ loop.last_peer_activity > 0
    /\ loop.now - loop.last_peer_activity = PEER_TIMEOUT + HEARTBEAT_INTERVAL

\* C27: in a sync loop that runs to the 4 h limit sync-session-warning is
\* emitted exactly once, at the first heartbeat tick at or after 3 h 45 m and
\* before sync-session-timeout; at the first tick at or after 4 h the loop
\* emits sync-session-timeout, sends Goodbye as its last frame and exits
\* without rotating the key on that tick.
C27_SessionLimit ==
    [][ loopLast'.kind = "tick" =>
           LET fr == loopLast'.frames
               ev == loopLast'.events
               warns == \E i \in 1 .. Len(ev) : ev[i] = "sync-session-warning"
               timeout == \E i \in 1 .. Len(ev) : ev[i] = "sync-session-timeout"
           IN /\ loop'.warnings <= 1
              /\ warns => /\ ~timeout
                          /\ loop.warnings = 0
                          /\ loop.now >= session_warning_at
                          /\ loop.now - HEARTBEAT_INTERVAL < session_warning_at
              /\ timeout => /\ loop.warnings = 1
                            /\ loop.now >= SESSION_MAX_DURATION
                            /\ loop.now - HEARTBEAT_INTERVAL < SESSION_MAX_DURATION
                            /\ fr[Len(fr)] = GoodbyeMsg
                            /\ ~loop'.running
                            /\ loop'.encryption = loop.encryption
                            /\ loop'.key_rotation_epoch = loop.key_rotation_epoch
              \* a tick at or after 4 h that finds the peer alive and gets its
              \* Heartbeat out is the session timeout
              /\ (/\ loop.now >= SESSION_MAX_DURATION
                  /\ loop.now - loop.last_peer_activity <= PEER_TIMEOUT
                  /\ Len(fr) > 1) => timeout
      ]_vars

\* the loop ran for 4 h and ended with the session timeout on a tick on
\* which the key rotation was due as well
C27_Witness ==
    /\ ~loop.running
    /\ loopLast.kind = "tick"
    /\ loopLast.events = <<"sync-session-timeout", "sync-disconnected">>
    /\ loop.warnings = 1
    /\ loop.now - loop.last_key_rotation >= KEY_ROTATION_INTERVAL

\* C30: a sync loop that starts a rotation hands KeyRotate{n}, n its epoch
\* plus one, to the socket before it rotates its own key, and no Update
\* between the two; if that send fails the loop exits with the cipher not
\* rotated; and every Update the loop sends is sealed under the key it then
\* holds with that key's next counter, so that the first Update behind a
\* KeyRotate{n} is sealed under a key of epoch n or later with counter 0.
C30_RotateAfterNotify ==
    [][\A p \in Peers :
         LET out == wire[Other(p)]
             out2 == wire'[Other(p)]
             n == key_rotation_epoch[p] + 1
         IN \* the tick of p on which the rotation is due
            /\ (/\ hs[p] = "loop" /\ nTicks' # nTicks
                /\ key_rotation_epoch'[p] # key_rotation_epoch[p]) =>
                  /\ key_rotation_epoch'[p] = n
                  /\ \/ /\ out2 = out \o <<HeartbeatMsg, KeyRotateMsg(n)>>
                        /\ cipher'[p] = rotate_key(cipher[p])
                        /\ hs'[p] = "loop"
                     \/ /\ out2 = out \o <<HeartbeatMsg>>
                        /\ cipher'[p] = cipher[p]
                        /\ hs'[p] = "exited"
            \* an Update of the loop of p goes out
            /\ (/\ hs[p] = "loop" /\ Len(out2) = Len(out) + 1
                /\ out2[Len(out2)].type = "update") =>
                  /\ out2[Len(out2)].envelope.key = KeyOf(cipher[p])
                  /\ out2[Len(out2)].envelope.counter = cipher[p].seal_counter
            \* on the wire: what follows a KeyRotate
            /\ \A i, j \in 1 .. Len(out2) :
                  (i < j /\ out2[i].type = "key_rotate" /\ out2[j].type = "update") =>
                      /\ out2[j].envelope.key.gen >= out2[i].epoch
                      /\ (\A k \in i + 1 .. j - 1 : out2[k].type # "update") =>
                            out2[j].envelope.counter = 0
      ]_vars

\* a loop rotated on its timer and then sent an Update: the KeyRotate and,
\* behind it, the Update under the new key are on their way to the peer
C30_Witness ==
    \E p \in Peers : \E i, j \in 1 .. Len(wire[p]) :
        /\ i < j
        /\ wire[p][i] = KeyRotateMsg(1)
        /\ wire[p][j].type = "update"
        /\ wire[p][j].envelope.key.gen = 1 /\ wire[p][j].envelope.counter = 0
        /\ cipher[Other(p)].gen = 1 /\ cipher[Other(p)].seal_counter = 1

\* C29: when a sync loop takes in a text frame that is no SyncMessage, an
\* Update whose envelope does not decrypt, or an Update whose plaintext is no
\* yrs update, its document is left as it was, no sync-state-updated is
\* emitted and the loop keeps running; and sync-state-updated is emitted only
\* in a step that took in an Update which decrypted and was applied.
C29_FrameErrorsSwallowed ==
    [][\A p \in Peers :
          LET consumed == hs[p] = "loop" /\ wire[p] # <<>> /\ wire'[p] = Tail(wire[p])
              msg == Head(wire[p])
              opens == msg.type = "update" /\ msg.envelope.key = KeyOf(cipher[p])
              bad == \/ msg.type = "unparsable"
                     \/ msg.type = "update" /\ ~opens
                     \/ opens /\ msg.envelope.pt.type # "yrs_update"
          IN /\ (consumed /\ bad) =>
                   /\ ldoc'[p] = ldoc[p]
                   /\ emitted'[p] = emitted[p]
                   /\ hs'[p] = "loop"
             /\ emitted'[p] # emitted[p] =>
                   /\ consumed /\ opens /\ msg.envelope.pt.type = "yrs_update"
                   /\ emitted'[p] = emitted[p] + 1
                   /\ ldoc'[p] = ldoc[p] \cup msg.envelope.pt.items]_vars

\* a loop that is still running has consumed in a replayed handshake frame,
\* which opened under its key and failed to apply, next to a good update
C29_Witness ==
    \E p \in Peers :
       /\ hs[p] = "loop"
       /\ "apply" \in swallowed[p]
       /\ emitted[p] > 0
       /\ wire[p] = <<>>

\* C28: once leave_session has run on a Connected device, that device's sync
\* loop eventually has sent Goodbye and exited, and the peer's status
\* eventually is Disconnected.
C28_LeaveEndsSession ==
    \A p \in Peers :
       hasLeft[p] ~> (saidGoodbye[p] /\ hs[p] = "exited" /\ lstatus[Other(p)] = "Disconnected")

\* C28, amended: once leave_session has run on a Connected device, that
\* device's sync loop eventually has exited, after sending Goodbye unless the
\* peer's loop has sent its own, and the peer's status eventually is
\* Disconnected.
C28_LeaveEndsSessionEitherGoodbye ==
    \A p \in Peers :
       hasLeft[p] ~> /\ hs[p] = "exited"
                     /\ saidGoodbye[p] \/ saidGoodbye[Other(p)]
                     /\ lstatus[Other(p)] = "Disconnected"

\* the creator has left a Connected session with an update still queued; its
\* loop has sent the update, then Goodbye, and the joiner's loop has ended on
\* that Goodbye
C28_Witness ==
    /\ hasLeft["creator"] /\ ~hasLeft["joiner"]
    /\ saidGoodbye["creator"] /\ ~saidGoodbye["joiner"]
    /\ hs = [p \in Peers |-> "exited"]
    /\ lstatus = [p \in Peers |-> "Disconnected"]
    /\ emitted["joiner"] = 2

\* C31: with the same pairing code on both devices and a connection that
\* loses and reorders nothing, both handshake sequences run to their end:
\* each device eventually is Connected and eventually is in its sync loop;
\* and the first Update the joiner's loop applies is the creator's initial
\* snapshot, which carries the whole of the creator's document as it was
\* when the snapshot was sent.
C31_HandshakeCompletes ==
    /\ \A p \in Peers :
          lcode["joiner"] = lcode["creator"] =>
              <>(lstatus[p] = "Connected") /\ <>(hs[p] = "loop")
    /\ [][(emitted["joiner"] = 0 /\ emitted'["joiner"] = 1) =>
             /\ wire["joiner"] # <<>>
             /\ Head(wire["joiner"]).type = "update"
             /\ snapshotSent = {Head(wire["joiner"]).envelope}
             /\ ldoc'["joiner"] =
                   ldoc["joiner"] \cup Head(wire["joiner"]).envelope.pt.items]_vars
    /\ [][\A env \in snapshotSent' \ snapshotSent :
             env.pt.items = ldoc["creator"]]_vars

\* both devices are Connected and in their loops, and the joiner's loop has
\* applied the snapshot, which carried an entry the creator wrote between
\* becoming Connected and sending it
C31_Witness ==
    /\ lcode["joiner"] = lcode["creator"]
    /\ \A p \in Peers : hs[p] = "loop" /\ lstatus[p] = "Connected"
    /\ emitted["joiner"] = 1
    /\ ldoc["joiner"] # {}
    /\ \E env \in snapshotSent : env.pt.items = ldoc["joiner"]

\* C32: the creator's negotiation does not fail on the order in which the
\* peer's SDP answer and the peer's candidates and ice_done arrive.
C32_AnswerInEitherOrder == nego # "failed"

\* C33: once the creator has sent ice_done, every candidate its peer
\* connection has gathered was sealed and handed to the relay before it.
C33_AllCandidatesRelayed ==
    \A i \in DOMAIN outlog :
       outlog[i].pt = IceDonePayload =>
          \A c \in gatheredIce : \E j \in 1..(i - 1) : outlog[j].pt = IcePayload(c)

\* C34: no task is suspended on a transport send or receive while it holds
\* the guard of the SyncState mutex or of the SyncDocument mutex.
C34_NoLockAcrossIo ==
    \A m \in Mutexes : holder[m] # None => At(holder[m]).op # "io"

\* the inbound frame the loop of device p is about to handle is a KeyRotate
KeyRotateNext(p) ==
    hs[p] = "loop" /\ wire[p] # <<>> /\ Head(wire[p]).type = "key_rotate"

\* a KeyRotate is on its way to device p
KeyRotateInFlight(p) == \E i \in DOMAIN wire[p] : wire[p][i].type = "key_rotate"

\* C35: in each running loop the number of rotate_key calls on its cipher is
\* its key_rotation_epoch; a KeyRotate whose epoch is not above the local one
\* changes neither, an accepted one carries the local epoch plus one; and
\* with no KeyRotate in flight the two loops' ciphers are at the same
\* generation.
C35_EpochCountsRotations ==
    /\ [](\A p \in Peers : hs[p] = "loop" => cipher[p].gen = key_rotation_epoch[p])
    /\ [][\A p \in Peers :
            (KeyRotateNext(p) /\ wire'[p] = Tail(wire[p]) /\ hs'[p] = "loop") =>
                IF Head(wire[p]).epoch > key_rotation_epoch[p]
                THEN /\ Head(wire[p]).epoch = key_rotation_epoch[p] + 1
                     /\ key_rotation_epoch'[p] = key_rotation_epoch[p] + 1
                     /\ cipher'[p].gen = cipher[p].gen + 1
                ELSE /\ key_rotation_epoch'[p] = key_rotation_epoch[p]
                     /\ cipher'[p] = cipher[p]]_vars
    /\ []((/\ \A p \in Peers : hs[p] = "loop" /\ ~KeyRotateInFlight(p))
            => cipher["creator"].gen = cipher["joiner"].gen)

\* both timers have fired before either KeyRotate arrived, both frames have
\* been handled and one device has rotated once more and been followed
C35_Witness ==
    /\ \A p \in Peers : hs[p] = "loop" /\ ~KeyRotateInFlight(p)
    /\ \A p \in Peers : cipher[p].gen = 2 /\ key_rotation_epoch[p] = 2

\* socket s is in r.clients of the room: a join of it was registered there
\* and it has not been removed since
MemberSocket(s, room) == \E m \in Members(rooms, room) : rooms[room][m] = s

\* C38: a relay frame that comes in on a socket which is no registered
\* member of the room it names is queued for delivery to no one.
C38_OnlyMembersRelay ==
    [][\A s \in Sockets, room \in RoomIds, from \in ClientIds, p \in Payloads :
          (RelayRelay(s, room, from, p) /\ ~MemberSocket(s, room)) => outbox' = outbox]_vars

\* C37: whenever the status is Disconnected, the session id, the pairing
\* code, the peer, the transport handle and the discovery are all absent.
C37_DisconnectedIsEmpty ==
    status = "Disconnected" =>
        /\ session_id = 0
        /\ pairing_code = None
        /\ peer = None
        /\ transport = NoHandle
        /\ discovery = FALSE

\* C39: when create_session returns an Err after it has passed the
\* Disconnected precondition (the emit, the bind or the mDNS announce
\* failed), the state is Disconnected again with no session id and no
\* pairing code.
C39_CreateErrorRollsBack ==
    [][\A g \in Gens, o \in {"emit_err", "bind_err", "mdns_err"} :
          CreateFinish(g, o) =>
              /\ status' = "Disconnected"
              /\ session_id' = 0
              /\ pairing_code' = None]_vars

\* C40: whenever the status is Connected the peer and the transport handle
\* are present, and update_transcript on a Connected device does not return
\* NotConnected.
C40_ConnectedHasHandle ==
    /\ [](status = "Connected" => (peer # None /\ transport # NoHandle))
    /\ [][(status = "Connected" /\ last'.op = "update_transcript")
             => last'.err # "NotConnected"]_vars

\* the step is the cleanup after the sync loop of a task of session g
LoopExitOf(g) ==
    \/ lan[g] = "loop" /\ lan'[g] = "none"
    \/ rtc[g] = "loop" /\ rtc'[g] = "none"
    \/ jloop[g] = "loop" /\ jloop'[g] = "none"

\* C36: the cleanup after a sync loop resets only the session the loop
\* belonged to: when another session has been created or joined since, it
\* leaves the status, the document, the pairing code and the transport
\* handle as they are.
C36_CleanupOwnSessionOnly ==
    [][\A g \in Gens :
          (LoopExitOf(g) /\ session_id # 0 /\ session_id # g)
              => UNCHANGED <<status, doc, pairing_code, transport>>]_vars

=============================================================================
